--------------------------- MODULE MemController ---------------------------
(***************************************************************************)
(* Builtin_ns::MiniCPUMemController: the register block the MiniCPU starts *)
(* asynchronous transfers with, the queue its store handler fills, the     *)
(* event thread that empties the queue into a thread pool, and the pool    *)
(* workers that wait, copy one double word and clear a pending bit.        *)
(*                                                                         *)
(* Three kinds of threads share the registers.  The CPU thread overwrites  *)
(* them without a lock and then corrects the pending bits under regMutex;  *)
(* a worker's read-modify-write of the pending bits runs under regMutex,   *)
(* but as a load and a store, so that the CPU's unlocked overwrite can     *)
(* fall between the two.                                                   *)
(*                                                                         *)
(* The pool is TaskPool, the abstraction ThreadPool implements; a task is  *)
(* the number of an event in the order the events were emitted.            *)
(***************************************************************************)
EXTENDS Integers, Sequences, FiniteSets

CONSTANTS NChn,        \* NR_CHN, the channels of each direction
          NBits,       \* the width of a pending register, NBits >= NChn
          NWorkers,    \* the size of the pool (NR_CHN in the code)
          NrCycle,     \* NR_CYCLE, the delay of a transfer in ticks
          MaxEvents,   \* bound: how many transfers may be started
          Addr,        \* the addresses descriptors may hold
          Mapped,      \* those of them a memory answers at
          Data,        \* what a double word holds
          Zero,        \* the zero double word
          PowerOn,     \* what the pending registers, which nothing
                       \* initialises, may hold at first
          PowerOnDesc  \* what the descriptors may hold at first

ASSUME ControllerAssumption ==
    /\ NChn \in Nat \ {0} /\ NBits \in Nat /\ NBits >= NChn
    /\ NWorkers \in Nat \ {0} /\ NrCycle \in Nat /\ MaxEvents \in Nat
    /\ Mapped \subseteq Addr /\ Addr # {}
    /\ Zero \in Data
    /\ PowerOn \subseteq SUBSET (0 .. NBits - 1) /\ PowerOn # {}
    /\ PowerOnDesc \subseteq [src : Addr, dst : Addr] /\ PowerOnDesc # {}

Kinds == {"rd", "wr"}
Chn == 0 .. NChn - 1
Bits == 0 .. NBits - 1
Workers == 1 .. NWorkers
Ids == 1 .. MaxEvents
Desc == [src : Addr, dst : Addr]
Event == [type : Kinds, chnID : Chn, src : Addr, dst : Addr]
NoId == 0

VARIABLES
    pend,        \* pend["rd"], pend["wr"]: rd_pending_chn_bits, wr_pending_chn_bits
    descs,       \* descs["rd"], descs["wr"]: rd_chn_descs, wr_chn_descs
    mem,         \* the memories behind the bus
    emitted,     \* the events emitted so far, first to last
    eventQueue,  \* the ids in eventQueue
    evpc,        \* where the event thread is
    hand,        \* the event it has popped and not yet handed to the pool
    stop,        \* the flag stop
    dtor,        \* where in ~MiniCPUMemController its owner is
    lane, status,   \* the pool, see TaskPool
    stage,       \* stage[w]: where in the handler worker w is
    waited,      \* waited[w]: global_tick - tick_start, up to NrCycle
    data,        \* data[w]: the double word worker w has loaded
    snap,        \* snap[w]: the pending bits worker w has loaded
    regMutex,    \* the worker holding regMutex, or NoId
    cpc,         \* where in the store handler the CPU is
    creg, cval,  \* the register and the value it stores
    todo         \* the channels it has still to emit events for

regVars == <<pend, descs>>
queueVars == <<emitted, eventQueue>>
evVars == <<evpc, hand, stop, dtor>>
poolVars == <<lane, status>>
workerVars == <<stage, waited, data, snap, regMutex>>
cpuVars == <<cpc, creg, cval, todo>>
vars == <<regVars, mem, queueVars, evVars, poolVars, workerVars, cpuVars>>

Pool == INSTANCE TaskPool WITH Lanes <- Workers, Tasks <- Ids, NoTask <- NoId

Stages == {"idle", "delay", "load", "store", "settle", "modify", "return"}

Init ==
    /\ pend \in [Kinds -> PowerOn]
    /\ \E d \in PowerOnDesc : descs = [k \in Kinds |-> [c \in Chn |-> d]]
    /\ mem \in [Mapped -> Data]
    /\ emitted = <<>>
    /\ eventQueue = <<>>
    /\ evpc = "check" /\ hand = NoId /\ stop = FALSE /\ dtor = "alive"
    /\ Pool!PoolInit
    /\ stage = [w \in Workers |-> "idle"]
    /\ waited = [w \in Workers |-> 0]
    /\ data = [w \in Workers |-> Zero]
    /\ snap = [w \in Workers |-> {}]
    /\ regMutex = NoId
    /\ cpc = "ready" /\ creg = "rd" /\ cval = {} /\ todo = {}

-----------------------------------------------------------------------------
(* The CPU thread: the store handler, register by register *)

\* (mutant of Tick: the delay loop runs while waited <= NR_CYCLE)
TickTooLong == waited' = [w \in Workers |->
                   IF stage[w] \in {"delay", "load", "store", "settle"} /\ waited[w] <= NrCycle
                   THEN waited[w] + 1 ELSE waited[w]]

\* Every handler waiting for global_tick to advance sees one tick more.
Tick == waited' = [w \in Workers |->
            IF stage[w] \in {"delay", "load", "store", "settle"} /\ waited[w] < NrCycle
            THEN waited[w] + 1 ELSE waited[w]]

\* A store to one address of a channel descriptor, and the tick of the instruction.
StoreDesc(k, c, field, a) ==
    /\ cpc = "ready"
    /\ descs' = [descs EXCEPT ![k][c][field] = a]
    /\ Tick
    /\ UNCHANGED <<pend, mem, queueVars, evVars, poolVars, stage, data, snap, regMutex, cpuVars>>

\* An instruction that stores to a memory.
StoreMem(a, d) == /\ cpc = "ready"
                  /\ mem' = [mem EXCEPT ![a] = d]
                  /\ Tick
                  /\ UNCHANGED <<regVars, queueVars, evVars, poolVars, stage, data, snap,
                                 regMutex, cpuVars>>

\* An instruction that changes none of this.
OtherInstr == /\ cpc = "ready"
              /\ Tick
              /\ UNCHANGED <<regVars, mem, queueVars, evVars, poolVars, stage, data, snap,
                             regMutex, cpuVars>>

\* `*ptr = val_to_store`: the pending register takes the value as it is, with
\* no lock.
StorePending(k, V) == /\ cpc = "ready"
                      /\ dtor = "alive"
                      /\ Len(emitted) + NChn <= MaxEvents
                      /\ pend' = [pend EXCEPT ![k] = V]
                      /\ cpc' = "mask" /\ creg' = k /\ cval' = V
                      /\ UNCHANGED <<descs, mem, queueVars, evVars, poolVars, workerVars, todo>>

Lowest(S) == {c \in S : \A d \in S : c <= d}

\* (mutant of MaskPending: regMutex is not taken)
MaskUnlocked == /\ cpc = "mask"
                /\ LET val == cval \ pend[creg]
                       bits == (val \cup pend[creg]) \cap Chn
                   IN /\ pend' = [pend EXCEPT ![creg] = @ \cup val]
                      /\ todo' = IF creg = "rd" THEN Lowest(bits) ELSE bits
                      /\ cpc' = IF bits = {} THEN "retire" ELSE "emit"
                /\ UNCHANGED <<descs, mem, queueVars, evVars, poolVars, workerVars, creg, cval>>

\* Under regMutex: drop from the value the bits that are pending, take as
\* channels to start whatever differs from them, and set them pending.  The
\* early return is a statement without `return`.  The loop over the channels
\* of the read register breaks after the first it starts.
MaskPending == /\ cpc = "mask"
               /\ regMutex = NoId
               /\ LET val == cval \ pend[creg]
                      chnToStart == (val \cup pend[creg]) \ (val \cap pend[creg])
                      bits == chnToStart \cap Chn
                  IN /\ pend' = [pend EXCEPT ![creg] = @ \cup val]
                     /\ todo' = IF creg = "rd" THEN Lowest(bits) ELSE bits
                     /\ cpc' = IF bits = {} THEN "retire" ELSE "emit"
               /\ UNCHANGED <<descs, mem, queueVars, evVars, poolVars, workerVars, creg, cval>>

\* (mutant of Emit: the newest event is put in front)
EmitInFront ==
    /\ cpc = "emit"
    /\ evpc # "block"
    /\ \E c \in Lowest(todo) :
          LET d == descs[creg][c]
              e == [type |-> creg, chnID |-> c, src |-> d.src, dst |-> d.dst]
          IN /\ emitted' = Append(emitted, e)
             /\ eventQueue' = <<Len(emitted) + 1>> \o eventQueue
             /\ todo' = todo \ {c}
    /\ cpc' = "notify"
    /\ UNCHANGED <<regVars, mem, evVars, poolVars, workerVars, creg, cval>>

\* An event with the descriptor as it is now, emplaced under eventQueueMutex,
\* which the event thread holds from its predicate until it blocks.
Emit == /\ cpc = "emit"
        /\ evpc # "block"
        /\ \E c \in Lowest(todo) :
              LET d == descs[creg][c]
                  e == [type |-> creg, chnID |-> c, src |-> d.src, dst |-> d.dst]
              IN /\ emitted' = Append(emitted, e)
                 /\ eventQueue' = Append(eventQueue, Len(emitted) + 1)
                 /\ todo' = todo \ {c}
        /\ cpc' = "notify"
        /\ UNCHANGED <<regVars, mem, evVars, poolVars, workerVars, creg, cval>>

WakeEventThread == evpc' = IF evpc = "asleep" THEN "check" ELSE evpc

NotifyQueue == /\ cpc = "notify"
               /\ WakeEventThread
               /\ cpc' = IF todo = {} THEN "retire" ELSE "emit"
               /\ UNCHANGED <<regVars, mem, queueVars, hand, stop, dtor, poolVars, workerVars,
                              creg, cval, todo>>

\* The store instruction ends and the tick advances.
Retire == /\ cpc = "retire"
          /\ cpc' = "ready"
          /\ Tick
          /\ UNCHANGED <<regVars, mem, queueVars, evVars, poolVars, stage, data, snap,
                         regMutex, creg, cval, todo>>

-----------------------------------------------------------------------------
(* The event thread *)

\* The wait predicate and what follows it, in one hold of eventQueueMutex:
\* stop ends the thread and drops what is queued; otherwise an event is popped.
EvCheck == /\ evpc = "check"
           /\ \/ /\ stop
                 /\ evpc' = "exited"
                 /\ UNCHANGED <<eventQueue, hand>>
              \/ /\ ~stop /\ eventQueue # <<>>
                 /\ hand' = Head(eventQueue)
                 /\ eventQueue' = Tail(eventQueue)
                 /\ evpc' = "dispatch"
              \/ /\ ~stop /\ eventQueue = <<>>
                 /\ evpc' = "block"
                 /\ UNCHANGED <<eventQueue, hand>>
           /\ UNCHANGED <<regVars, mem, emitted, stop, dtor, poolVars, workerVars, cpuVars>>

EvBlock == /\ evpc = "block"
           /\ evpc' = "asleep"
           /\ UNCHANGED <<regVars, mem, queueVars, hand, stop, dtor, poolVars, workerVars, cpuVars>>

\* pool.asyncRunTask: it spins until some worker is free.
EvDispatch == /\ evpc = "dispatch"
              /\ \E w \in Workers : Pool!Accept(w, hand)
              /\ hand' = NoId
              /\ evpc' = "check"
              /\ UNCHANGED <<regVars, mem, queueVars, stop, dtor, workerVars, cpuVars>>

-----------------------------------------------------------------------------
(* A pool worker inside handler[ASYNC_READ] or handler[ASYNC_WRITE] *)

EventOf(w) == emitted[lane[w]]

\* tick_start = global_tick; a read waits first, a write copies first.
BeginTask(w) == /\ stage[w] = "idle"
                /\ Pool!Begin(w)
                /\ stage' = [stage EXCEPT ![w] = IF EventOf(w).type = "rd" THEN "delay" ELSE "load"]
                /\ waited' = [waited EXCEPT ![w] = 0]
                /\ UNCHANGED <<regVars, mem, queueVars, evVars, data, snap, regMutex, cpuVars>>

EndDelay(w) == /\ stage[w] = "delay"
               /\ waited[w] = NrCycle
               /\ stage' = [stage EXCEPT ![w] = "load"]
               /\ UNCHANGED <<regVars, mem, queueVars, evVars, poolVars, waited, data, snap,
                              regMutex, cpuVars>>

\* bus->load: where no device answers, data keeps its initial zero.
BusLoad(w) == /\ stage[w] = "load"
              /\ data' = [data EXCEPT ![w] = IF EventOf(w).src \in Mapped
                                             THEN mem[EventOf(w).src] ELSE Zero]
              /\ stage' = [stage EXCEPT ![w] = "store"]
              /\ UNCHANGED <<regVars, mem, queueVars, evVars, poolVars, waited, snap,
                             regMutex, cpuVars>>

\* bus->store, its result ignored.
BusStore(w) == /\ stage[w] = "store"
               /\ mem' = IF EventOf(w).dst \in Mapped
                         THEN [mem EXCEPT ![EventOf(w).dst] = data[w]] ELSE mem
               /\ stage' = [stage EXCEPT ![w] = "settle"]
               /\ UNCHANGED <<regVars, queueVars, evVars, poolVars, waited, data, snap,
                              regMutex, cpuVars>>

\* The read-modify-write under regMutex, of rd_pending_chn_bits in both
\* handlers: the load (a write handler has its delay before it) ...
LoadPending(w) == /\ stage[w] = "settle"
                  /\ EventOf(w).type = "wr" => waited[w] = NrCycle
                  /\ regMutex = NoId
                  /\ regMutex' = w
                  /\ snap' = [snap EXCEPT ![w] = pend["rd"]]
                  /\ stage' = [stage EXCEPT ![w] = "modify"]
                  /\ UNCHANGED <<regVars, mem, queueVars, evVars, poolVars, waited, data, cpuVars>>

\* (mutants of ClearPending: the bit stays set; regMutex stays locked)
ClearNothing(w) == /\ stage[w] = "modify"
                   /\ pend' = [pend EXCEPT !["rd"] = snap[w]]
                   /\ regMutex' = NoId
                   /\ stage' = [stage EXCEPT ![w] = "return"]
                   /\ Pool!Finish(w)
                   /\ UNCHANGED <<descs, mem, queueVars, evVars, waited, data, snap, cpuVars>>

ClearKeepLock(w) == /\ stage[w] = "modify"
                    /\ pend' = [pend EXCEPT !["rd"] = snap[w] \ {EventOf(w).chnID}]
                    /\ stage' = [stage EXCEPT ![w] = "return"]
                    /\ Pool!Finish(w)
                    /\ UNCHANGED <<descs, mem, queueVars, evVars, waited, data, snap, regMutex,
                                   cpuVars>>

\* ... and the store; the handler returns.
ClearPending(w) == /\ stage[w] = "modify"
                   /\ pend' = [pend EXCEPT !["rd"] = snap[w] \ {EventOf(w).chnID}]
                   /\ regMutex' = NoId
                   /\ stage' = [stage EXCEPT ![w] = "return"]
                   /\ Pool!Finish(w)
                   /\ UNCHANGED <<descs, mem, queueVars, evVars, waited, data, snap, cpuVars>>

FreeWorker(w) == /\ stage[w] = "return"
                 /\ Pool!Free(w)
                 /\ stage' = [stage EXCEPT ![w] = "idle"]
                 /\ UNCHANGED <<regVars, mem, queueVars, evVars, waited, data, snap, regMutex,
                                cpuVars>>

-----------------------------------------------------------------------------
(* ~MiniCPUMemController: stop = true without the queue's mutex, notify, join *)

StopFlag == /\ dtor = "alive" /\ cpc = "ready"
            /\ stop' = TRUE /\ dtor' = "notify"
            /\ UNCHANGED <<regVars, mem, queueVars, evpc, hand, poolVars, workerVars, cpuVars>>

StopNotify == /\ dtor = "notify"
              /\ WakeEventThread
              /\ dtor' = "join"
              /\ UNCHANGED <<regVars, mem, queueVars, hand, stop, poolVars, workerVars, cpuVars>>

StopJoin == /\ dtor = "join" /\ evpc = "exited"
            /\ dtor' = "joined"
            /\ UNCHANGED <<regVars, mem, queueVars, evpc, hand, stop, poolVars, workerVars, cpuVars>>

-----------------------------------------------------------------------------
WorkerStep(w) == \/ BeginTask(w) \/ EndDelay(w) \/ BusLoad(w) \/ BusStore(w)
                 \/ LoadPending(w) \/ ClearPending(w) \/ FreeWorker(w)

EvStep == EvCheck \/ EvBlock \/ EvDispatch

\* The steps of the store handler the CPU is inside.
HandlerStep == MaskPending \/ Emit \/ NotifyQueue \/ Retire

ThreadStep == EvStep \/ \E w \in Workers : WorkerStep(w)

\* A CPU whose program is not known: any store to any register.
AnyStore == \/ \E k \in Kinds, V \in SUBSET Bits : StorePending(k, V)
            \/ \E k \in Kinds, c \in Chn, field \in {"src", "dst"}, a \in Addr :
                  StoreDesc(k, c, field, a)
            \/ \E a \in Mapped, d \in Data : StoreMem(a, d)

Next == \/ AnyStore \/ OtherInstr \/ HandlerStep
        \/ ThreadStep
        \/ StopFlag \/ StopNotify \/ StopJoin

Spec == Init /\ [][Next]_vars

\* The CPU keeps executing instructions and every thread that can run does.  For
\* a worker this includes that it begins an accepted task, which ThreadPool
\* gives as long as no worker oversleeps its notification.
FairSpec == /\ Spec
            /\ WF_vars(OtherInstr) /\ WF_vars(HandlerStep)
            /\ WF_vars(EvStep)
            /\ \A w \in Workers : WF_vars(WorkerStep(w))

-----------------------------------------------------------------------------
TypeOK ==
    /\ pend \in [Kinds -> SUBSET Bits]
    /\ descs \in [Kinds -> [Chn -> Desc]]
    /\ mem \in [Mapped -> Data]
    /\ emitted \in Seq(Event) /\ Len(emitted) <= MaxEvents
    /\ eventQueue \in Seq(Ids)
    /\ evpc \in {"check", "block", "asleep", "dispatch", "exited"}
    /\ hand \in Ids \cup {NoId}
    /\ stop \in BOOLEAN /\ dtor \in {"alive", "notify", "join", "joined"}
    /\ lane \in [Workers -> Ids \cup {NoId}]
    /\ status \in [Ids -> {"new", "accepted", "running", "done"}]
    /\ stage \in [Workers -> Stages]
    /\ waited \in [Workers -> 0 .. NrCycle]
    /\ data \in [Workers -> Data]
    /\ snap \in [Workers -> SUBSET Bits]
    /\ regMutex \in Workers \cup {NoId}
    /\ cpc \in {"ready", "mask", "emit", "notify", "retire"}
    /\ creg \in Kinds /\ cval \in SUBSET Bits /\ todo \in SUBSET Chn

\* No event is lost, duplicated or overtaken between the store handler and the
\* pool: the queue holds exactly the emitted events nobody has popped, in the
\* order they were emitted, the event thread holds the one before them, and the
\* pool has seen exactly the rest.
Dispatched == Len(emitted) - Len(eventQueue) - (IF hand = NoId THEN 0 ELSE 1)

EventsConserved ==
    /\ eventQueue = [i \in 1 .. Len(eventQueue) |-> Len(emitted) - Len(eventQueue) + i]
    /\ evpc = "dispatch" <=> hand # NoId
    /\ hand # NoId => hand = Dispatched + 1
    /\ \A id \in Ids : status[id] # "new" <=> id <= Dispatched

\* The part of regMutex that works: a read bit falls only when the CPU
\* overwrites the register, when a transfer on that very channel ends, or when
\* a worker writes back bits it loaded before an overwrite whose correction
\* under regMutex is still to come.
NoLostUpdate ==
    [][\A b \in Bits : b \in pend["rd"] /\ b \notin pend'["rd"] =>
          \/ cpc = "ready" /\ cpc' = "mask" /\ creg' = "rd"
          \/ \E w \in Workers : /\ stage[w] = "modify" /\ stage'[w] = "return"
                                /\ \/ EventOf(w).chnID = b
                                   \/ cpc = "mask" /\ creg = "rd" /\ b \in cval]_vars

\* Every transfer that is started is carried out, in spite of a queue that is
\* filled faster than the pool empties it and of workers waiting for regMutex.
TransfersDone ==
    \A id \in Ids : id <= Len(emitted) ~> (status[id] = "done" \/ stop)
=============================================================================
