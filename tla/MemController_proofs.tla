------------------------ MODULE MemController_proofs ------------------------
(***************************************************************************)
(* What the MiniCPU platform keeps, for any number of channels, workers,   *)
(* events and contexts, any width of the registers and any memory.         *)
(*                                                                         *)
(* The controller: no event is lost on its way from the store handler to   *)
(* the pool, and under regMutex no pending bit falls that nobody meant to  *)
(* clear.  EventsConserved needs to know how many events the handler may   *)
(* still emit (RoomForEvents).  NoLostUpdate needs that at most one worker *)
(* is between the load and the store of its read-modify-write              *)
(* (OneModifier), and that what it has loaded is short only of bits the    *)
(* CPU has written over since and not yet corrected (SnapIsFresh).         *)
(*                                                                         *)
(* The core beside it: a parked context rests (ParkedContextsRest).        *)
(*                                                                         *)
(* The firmware on top: it is one of the programs the controller is proved *)
(* for (FirmwareIsAProgram), its assertion and its message can be wrong    *)
(* only for a channel that was started twice (AssertsOnlyAfterRestart,     *)
(* ReadsSucceed).                                                          *)
(***************************************************************************)
EXTENDS MiniCPUFirmware, FiniteSetTheorems, SequenceTheorems, TLAPS

\* StorePending starts only with room for an event on every channel (the bound
\* of the model), and the handler emits one for each channel it has left.
RoomForEvents ==
    /\ cpc = "mask" => Len(emitted) + NChn <= MaxEvents
    /\ cpc \in {"emit", "notify"} => Len(emitted) + Cardinality(todo) <= MaxEvents

OneModifier == \A w \in Workers : stage[w] = "modify" <=> regMutex = w

\* The CPU has written register "rd" and has not corrected it yet.
Overwriting(b) == cpc = "mask" /\ creg = "rd" /\ b \in cval

SnapIsFresh == \A w \in Workers : stage[w] = "modify" =>
                   \A b \in pend["rd"] : b \in snap[w] \/ Overwriting(b)

IInv == TypeOK /\ EventsConserved /\ RoomForEvents /\ OneModifier /\ SnapIsFresh

ProtocolVars == <<emitted, eventQueue, evpc, hand, status>>
LockVars == <<pend, stage, snap, regMutex, cpc, creg, cval>>

-----------------------------------------------------------------------------
(* Sets of channels *)

LEMMA ChnCount ==
  ASSUME NEW S \in SUBSET Chn
  PROVE  IsFiniteSet(S) /\ Cardinality(S) \in Nat /\ Cardinality(S) <= NChn
<1>1. IsFiniteSet(Chn) /\ Cardinality(Chn) = NChn
  BY ControllerAssumption, FS_Interval DEF Chn
<1> QED
  BY <1>1, FS_Subset, FS_CardinalityType

LEMMA ChnTake ==
  ASSUME NEW S \in SUBSET Chn, NEW c \in S
  PROVE  Cardinality(S \ {c}) = Cardinality(S) - 1
BY ChnCount, FS_RemoveElement

-----------------------------------------------------------------------------
(* Steps that leave a part of the state alone *)

LEMMA ConservedUnchanged ==
  EventsConserved /\ UNCHANGED ProtocolVars => EventsConserved'
BY DEF EventsConserved, Dispatched, ProtocolVars

LEMMA RoomUnchanged ==
  RoomForEvents /\ UNCHANGED <<emitted, cpc, todo>> => RoomForEvents'
BY DEF RoomForEvents

LEMMA LockUnchanged ==
  OneModifier /\ SnapIsFresh /\ UNCHANGED LockVars => OneModifier' /\ SnapIsFresh'
BY DEF OneModifier, SnapIsFresh, Overwriting, LockVars

LEMMA TickType == TypeOK /\ Tick => waited' \in [Workers -> 0 .. NrCycle]
BY ControllerAssumption DEF TypeOK, Tick

\* An event can be numbered within the bound while the handler has one to emit.
LEMMA EmitHasRoom ==
  ASSUME TypeOK, RoomForEvents, cpc = "emit", NEW c \in todo
  PROVE  Len(emitted) + 1 \in Ids
<1>1. todo \in SUBSET Chn /\ Len(emitted) \in Nat
  BY LenProperties DEF TypeOK
<1>2. Cardinality(todo \ {c}) \in Nat /\ todo \ {c} \in SUBSET Chn
  <2>1. todo \ {c} \in SUBSET Chn
    BY <1>1
  <2> QED
    BY <2>1, ChnCount
<1>3. Cardinality(todo) \in Nat /\ Cardinality(todo \ {c}) = Cardinality(todo) - 1
  BY <1>1, ChnTake, ChnCount
<1>4. Len(emitted) + Cardinality(todo) <= MaxEvents
  BY DEF RoomForEvents
<1> QED
  BY <1>1, <1>2, <1>3, <1>4, ControllerAssumption DEF Ids

-----------------------------------------------------------------------------
(* Types *)

LEMMA InitType == Init => TypeOK
<1> SUFFICES ASSUME Init PROVE TypeOK
  OBVIOUS
<1> USE ControllerAssumption DEF Init, TypeOK
<1>1. pend \in [Kinds -> SUBSET Bits]
  BY DEF Bits
<1>2. descs \in [Kinds -> [Chn -> Desc]]
  BY DEF Desc
<1>3. emitted \in Seq(Event) /\ Len(emitted) <= MaxEvents /\ eventQueue \in Seq(Ids)
  OBVIOUS
<1>4. lane \in [Workers -> Ids \cup {NoId}] /\ status \in [Ids -> {"new", "accepted", "running", "done"}]
  BY DEF Pool!PoolInit
<1>5. /\ stage \in [Workers -> Stages] /\ snap \in [Workers -> SUBSET Bits]
      /\ waited \in [Workers -> 0 .. NrCycle] /\ data \in [Workers -> Data]
      /\ mem \in [Mapped -> Data]
  BY DEF Stages
<1>6. /\ regMutex \in Workers \cup {NoId} /\ hand \in Ids \cup {NoId}
      /\ creg \in Kinds /\ cval \in SUBSET Bits /\ todo \in SUBSET Chn
  BY DEF Kinds
<1> QED
  BY <1>1, <1>2, <1>3, <1>4, <1>5, <1>6

\* The steps of the CPU: a descriptor, a word of memory, and a store to a
\* pending register from the overwrite to the last event.
LEMMA CpuType ==
  ASSUME TypeOK, RoomForEvents,
         AnyStore \/ OtherInstr \/ HandlerStep
  PROVE  TypeOK'
<1> USE ControllerAssumption DEF TypeOK
<1>1. ASSUME NEW k \in Kinds, NEW V \in SUBSET Bits, StorePending(k, V) PROVE TypeOK'
  BY <1>1 DEF StorePending, queueVars, evVars, poolVars, workerVars
<1>2. ASSUME NEW k \in Kinds, NEW c \in Chn, NEW field \in {"src", "dst"}, NEW a \in Addr,
             StoreDesc(k, c, field, a)
      PROVE  TypeOK'
  <2>1. [descs[k][c] EXCEPT ![field] = a] \in Desc
    <3>1. descs[k][c] \in [src : Addr, dst : Addr]
      BY DEF Desc
    <3>2. CASE field = "src"
      BY <3>1, <3>2 DEF Desc
    <3>3. CASE field = "dst"
      BY <3>1, <3>3 DEF Desc
    <3> QED
      BY <3>2, <3>3
  <2>2. descs' = [descs EXCEPT ![k] = [descs[k] EXCEPT ![c] = [descs[k][c] EXCEPT ![field] = a]]]
    BY <1>2 DEF StoreDesc
  <2>3. descs' \in [Kinds -> [Chn -> Desc]]
    BY <2>1, <2>2
  <2> QED
    BY <1>2, <2>3, TickType DEF StoreDesc, queueVars, evVars, poolVars, cpuVars
<1>3. ASSUME NEW a \in Mapped, NEW d \in Data, StoreMem(a, d) PROVE TypeOK'
  BY <1>3, TickType DEF StoreMem, regVars, queueVars, evVars, poolVars, cpuVars
<1>4. CASE OtherInstr
  BY <1>4, TickType DEF OtherInstr, regVars, queueVars, evVars, poolVars, cpuVars
<1>5. CASE MaskPending
  <2>1. pend' \in [Kinds -> SUBSET Bits] /\ todo' \in SUBSET Chn
    BY <1>5 DEF MaskPending, Lowest, Bits, Chn
  <2> QED
    BY <1>5, <2>1 DEF MaskPending, queueVars, evVars, poolVars, workerVars
<1>6. CASE Emit
  <2>1. PICK c \in todo :
            LET d == descs[creg][c]
                e == [type |-> creg, chnID |-> c, src |-> d.src, dst |-> d.dst]
            IN /\ emitted' = Append(emitted, e)
               /\ eventQueue' = Append(eventQueue, Len(emitted) + 1)
               /\ todo' = todo \ {c}
    BY <1>6 DEF Emit, Lowest
  <2>2. descs[creg][c].src \in Addr /\ descs[creg][c].dst \in Addr
    BY DEF Desc
  <2>3. [type |-> creg, chnID |-> c, src |-> descs[creg][c].src, dst |-> descs[creg][c].dst] \in Event
    BY <2>2 DEF Event
  <2>4. Len(emitted) + 1 \in Ids
    BY <1>6, EmitHasRoom DEF Emit
  <2>5. emitted' \in Seq(Event) /\ Len(emitted') <= MaxEvents
    BY <2>1, <2>3, <2>4, AppendProperties DEF Ids
  <2>6. eventQueue' \in Seq(Ids)
    BY <2>1, <2>4, AppendProperties
  <2> QED
    BY <1>6, <2>1, <2>5, <2>6 DEF Emit, regVars, evVars, poolVars, workerVars
<1>7. CASE NotifyQueue
  BY <1>7 DEF NotifyQueue, WakeEventThread, regVars, queueVars, poolVars, workerVars
<1>8. CASE Retire
  BY <1>8, TickType DEF Retire, regVars, queueVars, evVars, poolVars
<1> QED
  BY <1>1, <1>2, <1>3, <1>4, <1>5, <1>6, <1>7, <1>8 DEF AnyStore, HandlerStep

LEMMA EvType ==
  ASSUME TypeOK, EvStep \/ StopFlag \/ StopNotify \/ StopJoin
  PROVE  TypeOK'
<1> USE DEF TypeOK
<1>1. CASE EvCheck
  <2>1. eventQueue' \in Seq(Ids) /\ hand' \in Ids \cup {NoId}
    <3>1. CASE eventQueue # <<>>
      <4>1. Head(eventQueue) \in Ids /\ Tail(eventQueue) \in Seq(Ids)
        BY <3>1, HeadTailProperties
      <4> QED
        BY <1>1, <4>1 DEF EvCheck
    <3>2. CASE eventQueue = <<>>
      BY <1>1, <3>2 DEF EvCheck
    <3> QED
      BY <3>1, <3>2
  <2>2. evpc' \in {"exited", "dispatch", "block"}
    BY <1>1 DEF EvCheck
  <2> QED
    BY <1>1, <2>1, <2>2 DEF EvCheck, regVars, poolVars, workerVars, cpuVars
<1>2. CASE EvBlock
  BY <1>2 DEF EvBlock, regVars, queueVars, poolVars, workerVars, cpuVars
<1>3. CASE EvDispatch
  <2>1. PICK w \in Workers : Pool!Accept(w, hand)
    BY <1>3 DEF EvDispatch
  <2>2. lane' \in [Workers -> Ids \cup {NoId}]
        /\ status' \in [Ids -> {"new", "accepted", "running", "done"}]
    BY <2>1 DEF Pool!Accept
  <2> QED
    BY <1>3, <2>2 DEF EvDispatch, regVars, queueVars, workerVars, cpuVars
<1>4. CASE StopFlag
  BY <1>4 DEF StopFlag, regVars, queueVars, poolVars, workerVars, cpuVars
<1>5. CASE StopNotify
  BY <1>5 DEF StopNotify, WakeEventThread, regVars, queueVars, poolVars, workerVars, cpuVars
<1>6. CASE StopJoin
  BY <1>6 DEF StopJoin, regVars, queueVars, poolVars, workerVars, cpuVars
<1> QED
  BY <1>1, <1>2, <1>3, <1>4, <1>5, <1>6 DEF EvStep

LEMMA WorkerType ==
  ASSUME TypeOK, NEW w \in Workers, WorkerStep(w)
  PROVE  TypeOK'
<1> USE ControllerAssumption DEF TypeOK, Stages
<1>1. CASE BeginTask(w)
  <2>1. status' \in [Ids -> {"new", "accepted", "running", "done"}] /\ lane' = lane
    BY <1>1 DEF BeginTask, Pool!Begin
  <2>2. stage' \in [Workers -> Stages] /\ waited' \in [Workers -> 0 .. NrCycle]
    BY <1>1 DEF BeginTask
  <2> QED
    BY <1>1, <2>1, <2>2 DEF BeginTask, regVars, queueVars, evVars, cpuVars
<1>2. CASE EndDelay(w)
  BY <1>2 DEF EndDelay, regVars, queueVars, evVars, poolVars, cpuVars
<1>3. CASE BusLoad(w)
  BY <1>3 DEF BusLoad, regVars, queueVars, evVars, poolVars, cpuVars
<1>4. CASE BusStore(w)
  BY <1>4 DEF BusStore, regVars, queueVars, evVars, poolVars, cpuVars
<1>5. CASE LoadPending(w)
  BY <1>5 DEF LoadPending, regVars, queueVars, evVars, poolVars, cpuVars, Kinds
<1>6. CASE ClearPending(w)
  <2>1. status' \in [Ids -> {"new", "accepted", "running", "done"}] /\ lane' = lane
    BY <1>6 DEF ClearPending, Pool!Finish
  <2>2. pend' \in [Kinds -> SUBSET Bits]
    BY <1>6 DEF ClearPending
  <2> QED
    BY <1>6, <2>1, <2>2 DEF ClearPending, queueVars, evVars, cpuVars
<1>7. CASE FreeWorker(w)
  <2>1. lane' \in [Workers -> Ids \cup {NoId}] /\ status' = status
    BY <1>7 DEF FreeWorker, Pool!Free
  <2> QED
    BY <1>7, <2>1 DEF FreeWorker, regVars, queueVars, evVars, cpuVars
<1> QED
  BY <1>1, <1>2, <1>3, <1>4, <1>5, <1>6, <1>7 DEF WorkerStep

-----------------------------------------------------------------------------
(* Events *)

LEMMA EmitParts ==
  ASSUME TypeOK, RoomForEvents, Emit
  PROVE  \E c \in todo :
             /\ Len(emitted') = Len(emitted) + 1
             /\ eventQueue' = Append(eventQueue, Len(emitted) + 1)
             /\ Len(emitted) + 1 \in Ids
             /\ todo' = todo \ {c}
<1>1. PICK c \in todo :
          LET d == descs[creg][c]
              e == [type |-> creg, chnID |-> c, src |-> d.src, dst |-> d.dst]
          IN /\ emitted' = Append(emitted, e)
             /\ eventQueue' = Append(eventQueue, Len(emitted) + 1)
             /\ todo' = todo \ {c}
  BY DEF Emit, Lowest
<1>2. [type |-> creg, chnID |-> c, src |-> descs[creg][c].src, dst |-> descs[creg][c].dst] \in Event
  BY DEF TypeOK, Event, Desc
<1>3. Len(emitted') = Len(emitted) + 1
  BY <1>1, <1>2, AppendProperties DEF TypeOK
<1>4. Len(emitted) + 1 \in Ids
  BY EmitHasRoom DEF Emit
<1> QED
  BY <1>1, <1>3, <1>4

LEMMA RoomStep == TypeOK /\ RoomForEvents /\ [Next]_vars => RoomForEvents'
<1> SUFFICES ASSUME TypeOK, RoomForEvents, [Next]_vars PROVE RoomForEvents'
  OBVIOUS
<1>1. ASSUME NEW k \in Kinds, NEW V \in SUBSET Bits, StorePending(k, V) PROVE RoomForEvents'
  BY <1>1 DEF StorePending, RoomForEvents, queueVars
<1>2. CASE MaskPending
  <2>1. todo' \in SUBSET Chn /\ cpc' \in {"retire", "emit"}
    BY <1>2 DEF MaskPending, Lowest
  <2>2. Cardinality(todo') \in Nat /\ Cardinality(todo') <= NChn
    BY <2>1, ChnCount
  <2>3. Len(emitted) \in Nat /\ Len(emitted) + NChn <= MaxEvents /\ emitted' = emitted
    BY <1>2, LenProperties DEF MaskPending, RoomForEvents, queueVars, TypeOK
  <2> QED
    BY <2>1, <2>2, <2>3, ControllerAssumption DEF RoomForEvents
<1>3. CASE Emit
  <2>1. PICK c \in todo : Len(emitted') = Len(emitted) + 1 /\ todo' = todo \ {c}
    BY <1>3, EmitParts
  <2>2. todo \in SUBSET Chn /\ Len(emitted) \in Nat
    BY LenProperties DEF TypeOK
  <2>3. Cardinality(todo') = Cardinality(todo) - 1 /\ Cardinality(todo) \in Nat
    BY <2>1, <2>2, ChnTake, ChnCount
  <2>4. cpc' = "notify" /\ Len(emitted) + Cardinality(todo) <= MaxEvents
    BY <1>3 DEF Emit, RoomForEvents
  <2> QED
    BY <2>1, <2>2, <2>3, <2>4 DEF RoomForEvents
<1>4. CASE NotifyQueue
  BY <1>4 DEF NotifyQueue, RoomForEvents, queueVars
<1>5. CASE Retire
  BY <1>5 DEF Retire, RoomForEvents
<1>6. CASE UNCHANGED <<emitted, cpc, todo>>
  BY <1>6, RoomUnchanged
<1> QED
  BY <1>1, <1>2, <1>3, <1>4, <1>5, <1>6
     DEF Next, AnyStore, HandlerStep, ThreadStep, EvStep, WorkerStep, vars, queueVars, cpuVars,
         StoreDesc, StoreMem, OtherInstr, EvCheck, EvBlock, EvDispatch, BeginTask, EndDelay,
         BusLoad, BusStore, LoadPending, ClearPending, FreeWorker, StopFlag, StopNotify, StopJoin

\* A worker's step moves a task from "accepted" on and never back to "new".
LEMMA TaskAdvances ==
  ASSUME TypeOK, NEW w \in Workers, Pool!Begin(w) \/ Pool!Finish(w) \/ Pool!Free(w)
  PROVE  \A id \in Ids : status'[id] # "new" <=> status[id] # "new"
BY DEF TypeOK, Pool!Begin, Pool!Finish, Pool!Free

LEMMA ConservedTasks ==
  ASSUME EventsConserved, UNCHANGED <<emitted, eventQueue, evpc, hand>>,
         \A id \in Ids : status'[id] # "new" <=> status[id] # "new"
  PROVE  EventsConserved'
BY DEF EventsConserved, Dispatched

LEMMA ConservedStep ==
  TypeOK /\ RoomForEvents /\ EventsConserved /\ [Next]_vars => EventsConserved'
<1> SUFFICES ASSUME TypeOK, RoomForEvents, EventsConserved, [Next]_vars PROVE EventsConserved'
  OBVIOUS
<1>1. Len(emitted) \in Nat /\ Len(eventQueue) \in Nat
  BY LenProperties DEF TypeOK
<1>2. CASE Emit
  <2>1. /\ Len(emitted') = Len(emitted) + 1
        /\ eventQueue' = Append(eventQueue, Len(emitted) + 1)
        /\ Len(emitted) + 1 \in Ids
    BY <1>2, EmitParts
  <2>2. UNCHANGED <<evpc, hand, status>>
    BY <1>2 DEF Emit, evVars, poolVars
  <2>3. /\ eventQueue' \in Seq(Ids) /\ Len(eventQueue') = Len(eventQueue) + 1
        /\ \A i \in 1 .. Len(eventQueue) : eventQueue'[i] = eventQueue[i]
        /\ eventQueue'[Len(eventQueue) + 1] = Len(emitted) + 1
    BY <2>1, AppendProperties DEF TypeOK
  <2>4. Dispatched' = Dispatched
    BY <1>1, <2>1, <2>2, <2>3 DEF Dispatched
  <2>5. \A i \in 1 .. Len(eventQueue') : eventQueue'[i] = Len(emitted') - Len(eventQueue') + i
    BY <1>1, <2>1, <2>3 DEF EventsConserved
  <2>6. eventQueue' = [i \in 1 .. Len(eventQueue') |-> eventQueue'[i]]
    BY <2>3
  <2> QED
    BY <2>2, <2>4, <2>5, <2>6 DEF EventsConserved
<1>3. CASE EvCheck
  <2>1. CASE UNCHANGED <<eventQueue, hand>> /\ evpc' # "dispatch"
    BY <1>3, <2>1 DEF EvCheck, EventsConserved, Dispatched, poolVars
  <2>2. CASE eventQueue # <<>> /\ hand' = Head(eventQueue) /\ eventQueue' = Tail(eventQueue)
             /\ evpc' = "dispatch"
    <3>1. emitted' = emitted /\ status' = status /\ hand = NoId
      BY <1>3 DEF EvCheck, EventsConserved, poolVars
    <3>2. /\ eventQueue' \in Seq(Ids) /\ Len(eventQueue') = Len(eventQueue) - 1
          /\ \A i \in 1 .. Len(eventQueue') : eventQueue'[i] = eventQueue[i + 1]
          /\ Len(eventQueue) >= 1 /\ hand' \in Ids
      BY <2>2, <1>1, HeadTailProperties, EmptySeq DEF TypeOK
    <3>3. hand' = eventQueue[1]
      BY <2>2 DEF TypeOK
    <3>4. hand' = Len(emitted) - Len(eventQueue) + 1
      BY <1>1, <3>2, <3>3 DEF EventsConserved
    <3>5. hand' # NoId /\ Dispatched' = Dispatched /\ hand' = Dispatched' + 1
      BY <1>1, <3>1, <3>2, <3>4 DEF Dispatched, Ids, NoId
    <3>6. \A i \in 1 .. Len(eventQueue') : eventQueue'[i] = Len(emitted') - Len(eventQueue') + i
      BY <1>1, <3>1, <3>2 DEF EventsConserved
    <3>7. eventQueue' = [i \in 1 .. Len(eventQueue') |-> eventQueue'[i]]
      BY <3>2
    <3> QED
      BY <2>2, <3>1, <3>5, <3>6, <3>7 DEF EventsConserved
  <2> QED
    BY <1>3, <2>1, <2>2 DEF EvCheck
<1>4. CASE EvDispatch
  <2>1. PICK w \in Workers : Pool!Accept(w, hand)
    BY <1>4 DEF EvDispatch
  <2>2. hand # NoId /\ hand \in Ids /\ hand = Dispatched + 1
    BY <1>4 DEF EvDispatch, EventsConserved, TypeOK
  <2>3. evpc' = "check" /\ hand' = NoId /\ emitted' = emitted /\ eventQueue' = eventQueue
    BY <1>4 DEF EvDispatch, queueVars
  <2>4. Dispatched' = hand
    BY <1>1, <2>2, <2>3 DEF Dispatched
  <2>5. \A id \in Ids : status'[id] # "new" <=> status[id] # "new" \/ id = hand
    BY <2>1 DEF Pool!Accept, TypeOK
  <2>6. \A id \in Ids : status'[id] # "new" <=> id <= Dispatched'
    BY <1>1, <2>2, <2>4, <2>5 DEF EventsConserved, Ids, Dispatched
  <2> QED
    BY <2>3, <2>6 DEF EventsConserved
<1>5. ASSUME NEW w \in Workers, BeginTask(w) \/ ClearPending(w) \/ FreeWorker(w)
      PROVE  EventsConserved'
  <2>1. UNCHANGED <<emitted, eventQueue, evpc, hand>>
    BY <1>5 DEF BeginTask, ClearPending, FreeWorker, queueVars, evVars
  <2>2. \A id \in Ids : status'[id] # "new" <=> status[id] # "new"
    BY <1>5, TaskAdvances DEF BeginTask, ClearPending, FreeWorker
  <2> QED
    BY <2>1, <2>2, ConservedTasks
<1>6. CASE EvBlock
  BY <1>6 DEF EvBlock, EventsConserved, Dispatched, queueVars, poolVars
<1>7. CASE NotifyQueue \/ StopNotify
  BY <1>7 DEF NotifyQueue, StopNotify, WakeEventThread, EventsConserved, Dispatched, queueVars, poolVars
<1>8. CASE UNCHANGED ProtocolVars
  BY <1>8, ConservedUnchanged
<1> QED
  BY <1>2, <1>3, <1>4, <1>5, <1>6, <1>7, <1>8
     DEF Next, AnyStore, HandlerStep, ThreadStep, EvStep, WorkerStep, vars, queueVars, evVars,
         poolVars, ProtocolVars, StorePending, StoreDesc, StoreMem, OtherInstr, MaskPending,
         Retire, EndDelay, BusLoad, BusStore, LoadPending, StopFlag, StopJoin

-----------------------------------------------------------------------------
(* The pending bits under regMutex *)

LEMMA LockStep ==
  TypeOK /\ OneModifier /\ SnapIsFresh /\ [Next]_vars => OneModifier' /\ SnapIsFresh'
<1> SUFFICES ASSUME TypeOK, OneModifier, SnapIsFresh, [Next]_vars
             PROVE  OneModifier' /\ SnapIsFresh'
  OBVIOUS
<1> USE DEF OneModifier, SnapIsFresh, Overwriting, TypeOK
<1>1. NoId \notin Workers
  BY DEF NoId, Workers
<1>2. ASSUME NEW k \in Kinds, NEW V \in SUBSET Bits, StorePending(k, V)
      PROVE  OneModifier' /\ SnapIsFresh'
  BY <1>2 DEF StorePending, workerVars
<1>3. CASE MaskPending
  BY <1>1, <1>3 DEF MaskPending, workerVars
<1>4. CASE Emit \/ NotifyQueue \/ Retire
  BY <1>4 DEF Emit, NotifyQueue, Retire, regVars, workerVars
<1>5. ASSUME NEW w \in Workers, BeginTask(w) \/ EndDelay(w) \/ BusLoad(w) \/ BusStore(w)
                                  \/ FreeWorker(w)
      PROVE  OneModifier' /\ SnapIsFresh'
  BY <1>5 DEF BeginTask, EndDelay, BusLoad, BusStore, FreeWorker, regVars, cpuVars, Kinds
<1>6. ASSUME NEW w \in Workers, LoadPending(w) PROVE OneModifier' /\ SnapIsFresh'
  BY <1>1, <1>6 DEF LoadPending, regVars, cpuVars
<1>7. ASSUME NEW w \in Workers, ClearPending(w) PROVE OneModifier' /\ SnapIsFresh'
  BY <1>1, <1>7 DEF ClearPending, cpuVars
<1>8. CASE UNCHANGED LockVars
  BY <1>8, LockUnchanged
<1> QED
  BY <1>2, <1>3, <1>4, <1>5, <1>6, <1>7, <1>8
     DEF Next, AnyStore, HandlerStep, ThreadStep, EvStep, WorkerStep, vars, regVars, workerVars,
         cpuVars, LockVars, StoreDesc, StoreMem, OtherInstr, EvCheck, EvBlock, EvDispatch,
         StopFlag, StopNotify, StopJoin

-----------------------------------------------------------------------------
(* The invariant *)

LEMMA InitInv == Init => IInv
<1> SUFFICES ASSUME Init PROVE IInv
  OBVIOUS
<1>1. EventsConserved
  BY DEF Init, EventsConserved, Dispatched, Pool!PoolInit, NoId, Ids
<1>2. RoomForEvents /\ OneModifier /\ SnapIsFresh
  BY DEF Init, RoomForEvents, OneModifier, SnapIsFresh, NoId, Workers
<1> QED
  BY <1>1, <1>2, InitType DEF IInv

LEMMA TypeStep == TypeOK /\ RoomForEvents /\ [Next]_vars => TypeOK'
<1> SUFFICES ASSUME TypeOK, RoomForEvents, [Next]_vars PROVE TypeOK'
  OBVIOUS
<1>1. CASE UNCHANGED vars
  BY <1>1 DEF vars, regVars, queueVars, evVars, poolVars, workerVars, cpuVars, TypeOK
<1> QED
  BY <1>1, CpuType, EvType, WorkerType DEF Next, ThreadStep

LEMMA NextInv == IInv /\ [Next]_vars => IInv'
BY TypeStep, RoomStep, ConservedStep, LockStep DEF IInv

\* The type invariant, and with it that no run emits more than MaxEvents events.
THEOREM TypeCorrect == Spec => []TypeOK
BY InitInv, NextInv, PTL DEF Spec, IInv

\* The queue between the store handler and the event thread, and the hand-over
\* to the pool (common.cpp, store, emitEvent and the event thread).
THEOREM NoEventLost == Spec => []EventsConserved
BY InitInv, NextInv, PTL DEF Spec, IInv

\* The read-modify-write of a worker and the correction of the CPU exclude each
\* other by regMutex; only the CPU's overwrite without it can lose a bit.
THEOREM NoUpdateLost == Spec => NoLostUpdate
<1> DEFINE Falls(b) == b \in pend["rd"] /\ b \notin pend'["rd"]
           Cause(b) == \/ cpc = "ready" /\ cpc' = "mask" /\ creg' = "rd"
                       \/ \E w \in Workers : /\ stage[w] = "modify" /\ stage'[w] = "return"
                                             /\ \/ EventOf(w).chnID = b
                                                \/ cpc = "mask" /\ creg = "rd" /\ b \in cval
<1>1. IInv /\ [Next]_vars => [\A b \in Bits : Falls(b) => Cause(b)]_vars
  <2> SUFFICES ASSUME IInv, Next, NEW b \in Bits, Falls(b) PROVE Cause(b)
    OBVIOUS
  <2> USE DEF IInv, TypeOK
  <2>1. ASSUME NEW k \in Kinds, NEW V \in SUBSET Bits, StorePending(k, V) PROVE Cause(b)
    BY <2>1 DEF StorePending
  <2>2. CASE MaskPending
    BY <2>2 DEF MaskPending
  <2>3. ASSUME NEW w \in Workers, ClearPending(w) PROVE Cause(b)
    BY <2>3 DEF ClearPending, SnapIsFresh, Overwriting
  <2>4. CASE UNCHANGED pend
    BY <2>4
  <2> QED
    BY <2>1, <2>2, <2>3, <2>4
       DEF Next, AnyStore, HandlerStep, ThreadStep, EvStep, WorkerStep, regVars, StoreDesc,
           StoreMem, OtherInstr, Emit, NotifyQueue, Retire, EvCheck, EvBlock, EvDispatch,
           BeginTask, EndDelay, BusLoad, BusStore, LoadPending, FreeWorker, StopFlag,
           StopNotify, StopJoin
<1> QED
  BY <1>1, InitInv, NextInv, PTL DEF Spec, NoLostUpdate
-----------------------------------------------------------------------------
(* The core beside the controller.  What a parked context may rely on, for any *)
(* number of contexts, any program, any width of a register and any debugger:  *)
(* whatever happens while it waits, it goes on with the registers and the      *)
(* program counter it had when it gave the core away.                          *)
(*                                                                             *)
(* The reason is where the switch is: in the tail of the instruction, behind   *)
(* its writes.  Every step writes the registers of the context that runs it,   *)
(* and no other (OwnRegisters); only SwitchTo changes who runs, and it records *)
(* what it leaves.                                                             *)

CONSTANTS XLEN, Field, Program, Start, NrCtx, CtxIdReg, PutcReg, DebugWrites, MaxTicks
VARIABLES ctx, coreCtx, ch, mode, csr, ended, stored, global_tick, left

MiniCPU == INSTANCE MiniCPUCore WITH currentCtx <- coreCtx

Files == /\ coreCtx \in MiniCPU!Ctx
         /\ ctx = [c \in MiniCPU!Ctx |-> ctx[c]]
         /\ left = [c \in MiniCPU!Ctx |-> left[c]]

CoreInv == Files /\ MiniCPU!Parked

\* The step wrote the running context's registers only, and it runs on.
OwnRegisters == /\ UNCHANGED <<coreCtx, left>>
                /\ \E r : ctx' = [ctx EXCEPT ![coreCtx] = r]

\* The step handed the core over, if to a context there is.
HandsOver == /\ coreCtx' \in MiniCPU!Ctx
             /\ \E r : /\ ctx' = [ctx EXCEPT ![coreCtx] = r]
                       /\ left' = [left EXCEPT ![coreCtx] = r]

Stops == UNCHANGED <<coreCtx, left, ctx>>

Effect == OwnRegisters \/ HandsOver \/ Stops

-----------------------------------------------------------------------------
(* How a step may end *)

LEMMA TrapEffect == MiniCPU!raiseTrap => Stops
BY DEF MiniCPU!raiseTrap, Stops

LEMMA GoEffect == ASSUME NEW g, NEW next, MiniCPU!Go(g, next) PROVE OwnRegisters
BY DEF MiniCPU!Go, MiniCPU!Retire, OwnRegisters

LEMMA StoreEffect ==
  ASSUME NEW store, NEW g, NEW next, MiniCPU!StoreOnBus(store, g, next) PROVE OwnRegisters
BY DEF MiniCPU!StoreOnBus, MiniCPU!Retire, OwnRegisters

LEMMA PutEffect == ASSUME NEW v, NEW next, MiniCPU!PutC(v, next) PROVE OwnRegisters
BY DEF MiniCPU!PutC, MiniCPU!Retire, OwnRegisters

LEMMA SwitchEffect ==
  ASSUME coreCtx \in MiniCPU!Ctx, NEW v, NEW next, MiniCPU!SwitchTo(v, next) PROVE HandsOver
BY DEF MiniCPU!SwitchTo, MiniCPU!Retire, HandsOver

LEMMA ReturnEffect ==
  ASSUME NEW level, NEW fields, NEW target, MiniCPU!ReturnTo(level, fields, target)
  PROVE  OwnRegisters
<1>1. ctx' = [ctx EXCEPT ![coreCtx] = [ctx[coreCtx] EXCEPT !.pc = target]]
  BY DEF MiniCPU!ReturnTo
<1> QED
  BY <1>1 DEF MiniCPU!ReturnTo, OwnRegisters

-----------------------------------------------------------------------------
(* Every operation ends in one of these ways *)

LEMMA ComputeEffect ==
  ASSUME NEW ins,
         \/ MiniCPU!ComputeImmediate(ins) \/ MiniCPU!ComputeRegisters(ins)
         \/ MiniCPU!DoNothing(ins)
  PROVE  Effect
<1>1. CASE MiniCPU!ComputeImmediate(ins)
  BY <1>1, GoEffect DEF MiniCPU!ComputeImmediate, Effect
<1>2. CASE MiniCPU!ComputeRegisters(ins)
  BY <1>2, GoEffect DEF MiniCPU!ComputeRegisters, Effect
<1>3. CASE MiniCPU!DoNothing(ins)
  BY <1>3, GoEffect DEF MiniCPU!DoNothing, Effect
<1> QED
  BY <1>1, <1>2, <1>3

LEMMA JumpEffect == ASSUME NEW ins, MiniCPU!Jump(ins) \/ MiniCPU!BranchOn(ins) PROVE Effect
<1>1. CASE MiniCPU!Jump(ins)
  BY <1>1, GoEffect, TrapEffect DEF MiniCPU!Jump, Effect
<1>2. CASE MiniCPU!BranchOn(ins)
  BY <1>2, GoEffect DEF MiniCPU!BranchOn, Effect
<1> QED
  BY <1>1, <1>2

LEMMA ReadEffect == ASSUME NEW ins, MiniCPU!memRead(ins) PROVE Effect
<1> DEFINE op == MiniCPU!Operation(ins)
           addr == MiniCPU!Address(ins)
           filled(v) == MiniCPU!setGPR(op.rd, MiniCPU!Extended(op, v))
           got(v) == MiniCPU!Go(filled(v), MiniCPU!NextPC(ins)) /\ MiniCPU!Count
<1>1. ASSUME NEW v, got(v) PROVE Effect
  BY <1>1, GoEffect DEF Effect
<1>2. \/ MiniCPU!raiseTrap \/ got(coreCtx) \/ got(ch)
      \/ \E v \in MiniCPU!Core!MemoryWords(op.size * MiniCPU!Byte) : got(v)
  BY DEF MiniCPU!memRead
<1> QED
  BY <1>1, <1>2, TrapEffect DEF Effect

LEMMA WriteEffect == ASSUME coreCtx \in MiniCPU!Ctx, NEW ins, MiniCPU!memWrite(ins) PROVE Effect
<1> DEFINE op == MiniCPU!Operation(ins)
           written == MiniCPU!Core!Written(op, MiniCPU!Address(ins), MiniCPU!gpr[op.rs2])
<1>1. \/ MiniCPU!raiseTrap \/ MiniCPU!SwitchTo(MiniCPU!gpr[op.rs2], MiniCPU!NextPC(ins))
      \/ MiniCPU!PutC(written.value, MiniCPU!NextPC(ins))
      \/ MiniCPU!StoreOnBus(written, MiniCPU!gpr, MiniCPU!NextPC(ins))
  BY DEF MiniCPU!memWrite
<1> QED
  BY <1>1, TrapEffect, SwitchEffect, PutEffect, StoreEffect DEF Effect

LEMMA AtomicEffect == ASSUME NEW ins, MiniCPU!AtomicMemory(ins) PROVE Effect
BY GoEffect, StoreEffect, TrapEffect DEF MiniCPU!AtomicMemory, Effect

LEMMA SystemEffect ==
  ASSUME NEW ins, \/ MiniCPU!Return(ins) \/ MiniCPU!FenceTLB(ins)
                  \/ MiniCPU!Environment(ins) \/ MiniCPU!AccessCsr(ins)
  PROVE  Effect
<1>1. CASE MiniCPU!Return(ins)
  BY <1>1, ReturnEffect, TrapEffect DEF MiniCPU!Return, Effect
<1>2. CASE MiniCPU!FenceTLB(ins)
  BY <1>2, GoEffect, TrapEffect DEF MiniCPU!FenceTLB, Effect
<1>3. CASE MiniCPU!Environment(ins)
  BY <1>3, TrapEffect DEF MiniCPU!Environment, Effect
<1>4. CASE MiniCPU!AccessCsr(ins)
  BY <1>4, GoEffect, TrapEffect DEF MiniCPU!AccessCsr, Effect
<1> QED
  BY <1>1, <1>2, <1>3, <1>4

LEMMA NextEffect == coreCtx \in MiniCPU!Ctx /\ MiniCPU!Next => Effect
<1> SUFFICES ASSUME coreCtx \in MiniCPU!Ctx, MiniCPU!Next PROVE Effect
  OBVIOUS
<1>1. ASSUME NEW ins, MiniCPU!Execute(ins) PROVE Effect
  <2>1. CASE MiniCPU!LoadMemory(ins) \/ MiniCPU!LoadAsync(ins)
    BY <2>1, ReadEffect DEF MiniCPU!LoadMemory, MiniCPU!LoadAsync
  <2>2. CASE MiniCPU!StoreMemory(ins) \/ MiniCPU!StoreAsync(ins)
    BY <2>2, WriteEffect DEF MiniCPU!StoreMemory, MiniCPU!StoreAsync
  <2> QED
    BY <1>1, <2>1, <2>2, ComputeEffect, JumpEffect, AtomicEffect, SystemEffect DEF MiniCPU!Execute
<1>2. CASE MiniCPU!WriteAllRegister
  BY <1>2 DEF MiniCPU!WriteAllRegister, Effect, OwnRegisters
<1>3. CASE MiniCPU!TrapAtOnce \/ MiniCPU!FetchFault
  BY <1>3, TrapEffect DEF MiniCPU!TrapAtOnce, MiniCPU!FetchFault, Effect
<1> QED
  BY <1>1, <1>2, <1>3 DEF MiniCPU!Next, MiniCPU!Instruction

-----------------------------------------------------------------------------
(* The invariant *)

LEMMA CoreInitInv == ASSUME MiniCPU!CoreAssumption PROVE MiniCPU!Init => CoreInv
<1> SUFFICES ASSUME MiniCPU!Init PROVE CoreInv
  OBVIOUS
<1>1. 0 \in MiniCPU!Ctx
  BY DEF MiniCPU!CoreAssumption, MiniCPU!Ctx
<1> QED
  BY <1>1 DEF MiniCPU!Init, CoreInv, Files, MiniCPU!Parked

LEMMA CoreEffectInv == CoreInv /\ Effect => CoreInv'
<1> USE DEF CoreInv, Files, MiniCPU!Parked
<1>1. CoreInv /\ OwnRegisters => CoreInv'
  BY DEF OwnRegisters
<1>2. CoreInv /\ HandsOver => CoreInv'
  BY DEF HandsOver
<1>3. CoreInv /\ Stops => CoreInv'
  BY DEF Stops
<1> QED
  BY <1>1, <1>2, <1>3 DEF Effect

\* yield of the firmware: a context resumes as if its store to the context
\* register had been any other store (rv64_exec.cpp, the tail of step).
THEOREM ParkedContextsRest ==
  ASSUME MiniCPU!CoreAssumption PROVE MiniCPU!Spec => []MiniCPU!Parked
<1>1. CoreInv /\ [MiniCPU!Next]_(MiniCPU!vars) => CoreInv'
  BY NextEffect, CoreEffectInv DEF CoreInv, Files, MiniCPU!vars, Stops, Effect
<1> QED
  BY <1>1, CoreInitInv, PTL DEF MiniCPU!Spec, CoreInv

-----------------------------------------------------------------------------
(* The firmware on the controller: what main.c can rely on, for any number of  *)
(* contexts and channels.  A store of |= whose value holds an older bit starts *)
(* the lowest of them again.  As long as that has not happened to a channel,   *)
(* at most one transfer of it is under way, its descriptor is the one of that  *)
(* transfer, and its bit is held until the transfer has ended (OneLive): so a  *)
(* channel found free has nothing under way, the assertion finds the bit, and  *)
(* a bit that has gone means that the data has come.                           *)

\* Labels of an application between the search for a channel and the store of the
\* pending bits, and from there on.
Choosing == {"append", "set_src", "set_dst", "load_bits", "store_bits"}
Started == {"assert", "wait", "resumed", "yield", "main_loop", "failed"}

\* An application keeps the core from the end of its search to its assertion, and
\* the store handler runs for one that has just stored.
Place == /\ \A c \in Apps : fpc[c] \in Choosing \cup {"assert"} => currentCtx = c
         /\ \A c \in Apps : fpc[c] \in Choosing \cup Started => freeChn[c] \in Chn
         /\ cpc # "ready" => currentCtx \in Apps /\ fpc[currentCtx] = "assert"
         /\ creg = "rd"

\* The pending bits as the firmware means them: until the handler has corrected the
\* register, the value it was given.
Held == IF cpc = "mask" THEN cval ELSE pend["rd"]

\* What the register, a worker inside its read-modify-write and an application inside
\* its own have of them.
BitsAgree ==
    /\ pend["rd"] \subseteq Held
    /\ \A w \in Workers : stage[w] = "modify" => snap[w] \subseteq Held
    /\ \A w \in Workers : stage[w] = "modify" /\ cpc # "mask" => snap[w] = pend["rd"]
    /\ \A c \in Apps : fpc[c] = "store_bits" => pend["rd"] \subseteq loaded[c]
    /\ \A c \in Apps : fpc[c] \in Choosing => freeChn[c] \notin pend["rd"]

\* A worker inside a handler runs the transfer of its lane, which is no other's.
Busy == {"delay", "load", "store", "settle", "modify"}
LanesApart ==
    /\ \A w \in Workers : stage[w] \in Busy => lane[w] # NoId /\ status[lane[w]] = "running"
    /\ \A w \in Workers : lane[w] # NoId => status[lane[w]] # "new"
    /\ \A v, w \in Workers : lane[v] = lane[w] /\ lane[v] # NoId => v = w

EventNow(k) == [type |-> "rd", chnID |-> k, src |-> descs["rd"][k].src, dst |-> descs["rd"][k].dst]

\* The transfers that have been started and are not over.
Live == {id \in DOMAIN emitted : status[id] # "done"}

OneLive ==
    /\ \A id \in DOMAIN emitted : emitted[id].type = "rd"
    /\ \A id \in Live : \/ Restarted(emitted[id].chnID)
                        \/ /\ emitted[id] = EventNow(emitted[id].chnID)
                           /\ emitted[id].chnID \in Held
    /\ \A i, j \in Live : i # j /\ emitted[i].chnID = emitted[j].chnID
                              => Restarted(emitted[i].chnID)

\* A channel the handler is about to start is held, or this transfer of it is over.
ToStart == cpc \in {"emit", "notify"} =>
    \A k \in todo : \/ Restarted(k) \/ k \in Held
                    \/ \E id \in DOMAIN emitted : emitted[id] = EventNow(k)

\* The channel an application has found has nothing under way, and from the store to
\* the assertion nothing that could already be over.
Recent == IF cpc = "ready" THEN 1 ELSE 0

Idle(k) == \A id \in Live : emitted[id].chnID # k

Fresh(k) == \A w \in Workers : stage[w] \in Busy /\ EventOf(w).chnID = k =>
                                   stage[w] = "delay" /\ waited[w] <= Recent

OwnChannel ==
    /\ \A c \in Apps : fpc[c] \in Choosing => Restarted(freeChn[c]) \/ Idle(freeChn[c])
    /\ \A c \in Apps : fpc[c] = "assert" =>
           \/ Restarted(freeChn[c])
           \/ /\ freeChn[c] \in Held
              /\ cpc = "mask" => Idle(freeChn[c])
              /\ Fresh(freeChn[c])

FInv == /\ IInv /\ FTypes /\ Place /\ BitsAgree /\ LanesApart
        /\ OneLive /\ ToStart /\ OwnChannel /\ AssertHolds

-----------------------------------------------------------------------------
(* The firmware is one of the programs the controller is proved for *)

LEMMA AppIsCtx == Apps \subseteq Ctx /\ 0 \in Ctx /\ 0 \notin Apps /\ 1 \in Apps
BY FirmwareAssumption DEF Apps, Ctx

LEMMA ChnIsBit == Chn \subseteq Bits
BY ControllerAssumption DEF Chn, Bits

LEMMA CtxIsProgram ==
  ASSUME TypeOK, FTypes, Place, CtxStep
  PROVE  AnyStore \/ OtherInstr
<1>1. ASSUME NEW c \in Apps, SetSrc(c) PROVE AnyStore
  <2>1. freeChn[c] \in Chn /\ Src \in Addr
    BY <1>1, FirmwareAssumption, ControllerAssumption DEF SetSrc, At, Place, Choosing
  <2> QED
    BY <1>1, <2>1 DEF SetSrc, AnyStore, Kinds
<1>2. ASSUME NEW c \in Apps, SetDst(c) PROVE AnyStore
  <2>1. freeChn[c] \in Chn /\ Val[c] \in Addr
    BY <1>2, FirmwareAssumption, ControllerAssumption DEF SetDst, At, Place, Choosing
  <2> QED
    BY <1>2, <2>1 DEF SetDst, AnyStore, Kinds
<1>3. ASSUME NEW c \in Apps, StoreBits(c) PROVE AnyStore
  <2>1. freeChn[c] \in Chn /\ loaded[c] \in SUBSET Bits
    BY <1>3, AppIsCtx DEF StoreBits, At, Place, Choosing, FTypes
  <2>2. loaded[c] \cup {freeChn[c]} \in SUBSET Bits
    BY <2>1, ChnIsBit
  <2> QED
    BY <1>3, <2>2 DEF StoreBits, AnyStore, Kinds
<1> QED
  BY <1>1, <1>2, <1>3
     DEF CtxStep, StartScheduler, CheckPending, SwitchToApp, AdvanceChk, FindChannel,
         AppendWaiting, LoadBits, AssertPending, Yield, PrintSuccess, SpinForever

LEMMA StepIsProgram == TypeOK /\ FTypes /\ Place /\ [FNext]_allVars => [Next]_vars
BY CtxIsProgram DEF FNext, Next, allVars

-----------------------------------------------------------------------------
(* Types and places *)

LEMMA FTypesStep == TypeOK /\ FTypes /\ Place /\ [FNext]_allVars => FTypes'
<1> SUFFICES ASSUME TypeOK, FTypes, Place, [FNext]_allVars PROVE FTypes'
  OBVIOUS
<1> USE AppIsCtx DEF FTypes, Labels, Goto, At
<1>1. CASE StartScheduler
  BY <1>1 DEF StartScheduler
<1>2. ASSUME NEW k \in Kinds, NEW next \in {"check_wr", "switch"}, CheckPending(k, next)
      PROVE  FTypes'
  BY <1>2 DEF CheckPending
<1>3. CASE SwitchToApp
  BY <1>3 DEF SwitchToApp
<1>4. CASE AdvanceChk
  BY <1>4, FirmwareAssumption DEF AdvanceChk, Apps
<1>5. ASSUME NEW c \in Apps, FindChannel(c) PROVE FTypes'
  <2>1. freeChn' \in [Ctx -> 0 .. NChn]
    BY <1>5, ControllerAssumption DEF FindChannel
  <2>2. fpc' \in [Ctx -> Labels]
    BY <1>5 DEF FindChannel
  <2> QED
    BY <1>5, <2>1, <2>2 DEF FindChannel
<1>6. ASSUME NEW c \in Apps, AppendWaiting(c) PROVE FTypes'
  <2>1. freeChn[c] \in Chn
    BY <1>6 DEF AppendWaiting, Place, Choosing
  <2> QED
    BY <1>6, <2>1 DEF AppendWaiting, Kinds
<1>7. ASSUME NEW c \in Apps, SetSrc(c) \/ SetDst(c) \/ StoreBits(c) PROVE FTypes'
  BY <1>7 DEF SetSrc, SetDst, StoreBits
<1>8. ASSUME NEW c \in Apps, LoadBits(c) PROVE FTypes'
  BY <1>8 DEF LoadBits, TypeOK, Kinds
<1>9. ASSUME NEW c \in Apps, AssertPending(c) \/ PrintSuccess(c) PROVE FTypes'
  BY <1>9 DEF AssertPending, PrintSuccess
<1>10. ASSUME NEW c \in Apps, Yield(c, "wait", "resumed") \/ Yield(c, "yield", "main_loop")
       PROVE  FTypes'
  BY <1>10 DEF Yield
<1>11. CASE UNCHANGED fwVars
  BY <1>11 DEF fwVars
<1> QED
  BY <1>1, <1>2, <1>3, <1>4, <1>5, <1>6, <1>7, <1>8, <1>9, <1>10, <1>11
     DEF FNext, CtxStep, SpinForever, allVars, Kinds

LEMMA PlaceStep == TypeOK /\ FTypes /\ Place /\ [FNext]_allVars => Place'
<1> SUFFICES ASSUME TypeOK, FTypes, Place, [FNext]_allVars PROVE Place'
  OBVIOUS
<1> USE AppIsCtx DEF FTypes, Labels, Goto, At, Place, Choosing, Started
<1>1. CASE StartScheduler
  BY <1>1 DEF StartScheduler, OtherInstr, cpuVars
<1>2. ASSUME NEW k \in Kinds, NEW next \in {"check_wr", "switch"}, CheckPending(k, next)
      PROVE  Place'
  BY <1>2 DEF CheckPending, OtherInstr, cpuVars
<1>3. CASE SwitchToApp \/ AdvanceChk
  BY <1>3 DEF SwitchToApp, AdvanceChk, OtherInstr, cpuVars
<1>5. ASSUME NEW c \in Apps, FindChannel(c) PROVE Place'
  <2>1. freeChn[c] \in 0 .. NChn /\ cpc' = "ready" /\ creg' = "rd" /\ UNCHANGED currentCtx
    BY <1>5 DEF FindChannel, OtherInstr, cpuVars
  <2>2. CASE fpc' = fpc
    BY <1>5, <2>1, <2>2 DEF FindChannel
  <2>3. CASE freeChn[c] < NChn /\ Goto(c, "append") /\ UNCHANGED freeChn
    <3>1. freeChn[c] \in Chn
      BY <2>1, <2>3, ControllerAssumption DEF Chn
    <3> QED
      BY <1>5, <2>1, <2>3, <3>1 DEF FindChannel
  <2> QED
    BY <1>5, <2>2, <2>3 DEF FindChannel
<1>6. ASSUME NEW c \in Apps, AppendWaiting(c) \/ LoadBits(c) \/ AssertPending(c) \/ PrintSuccess(c)
      PROVE  Place'
  BY <1>6 DEF AppendWaiting, LoadBits, AssertPending, PrintSuccess, OtherInstr, cpuVars
<1>7. ASSUME NEW c \in Apps, SetSrc(c) \/ SetDst(c) PROVE Place'
  BY <1>7 DEF SetSrc, SetDst, StoreDesc, cpuVars
<1>8. ASSUME NEW c \in Apps, StoreBits(c) PROVE Place'
  BY <1>8 DEF StoreBits, StorePending
<1>10. ASSUME NEW c \in Apps, Yield(c, "wait", "resumed") \/ Yield(c, "yield", "main_loop")
       PROVE  Place'
  BY <1>10 DEF Yield, OtherInstr, cpuVars
<1>11. ASSUME UNCHANGED fwVars, UNCHANGED cpuVars PROVE Place'
  BY <1>11 DEF fwVars, cpuVars
<1>12. ASSUME UNCHANGED fwVars, HandlerStep PROVE Place'
  <2>1. creg' = creg /\ (cpc' # "ready" => cpc # "ready")
    BY <1>12 DEF HandlerStep, MaskPending, Emit, NotifyQueue, Retire, cpuVars
  <2> QED
    BY <1>12, <2>1 DEF fwVars
<1>13. ThreadStep => UNCHANGED cpuVars
  BY DEF ThreadStep, EvStep, WorkerStep, EvCheck, EvBlock, EvDispatch, BeginTask, EndDelay,
         BusLoad, BusStore, LoadPending, ClearPending, FreeWorker
<1>14. OtherInstr => UNCHANGED cpuVars
  BY DEF OtherInstr
<1> QED
  BY <1>1, <1>2, <1>3, <1>5, <1>6, <1>7, <1>8, <1>10, <1>11, <1>12, <1>13, <1>14
     DEF FNext, CtxStep, SpinForever, allVars, vars, Kinds

-----------------------------------------------------------------------------
(* Which steps touch what *)

BitsVars == <<pend, stage, snap, cpc, cval>>
PoolStageVars == <<lane, status, stage>>

\* An instruction of the firmware that is not the store of the pending bits.
Plain == \/ StartScheduler \/ SwitchToApp \/ AdvanceChk
         \/ \E k \in Kinds, next \in {"check_wr", "switch"} : CheckPending(k, next)
         \/ \E c \in Apps : \/ FindChannel(c) \/ AppendWaiting(c) \/ SetSrc(c) \/ SetDst(c)
                            \/ LoadBits(c) \/ AssertPending(c) \/ PrintSuccess(c)
                            \/ Yield(c, "wait", "resumed") \/ Yield(c, "yield", "main_loop")
                            \/ SpinForever(c)

LEMMA CtxCases == CtxStep => Plain \/ \E c \in Apps : StoreBits(c)
BY DEF CtxStep, Plain, Kinds

LEMMA PlainEffect ==
  Plain => /\ cpc = "ready" /\ Tick
           /\ UNCHANGED <<pend, mem, queueVars, evVars, poolVars, stage, data, snap, regMutex, cpuVars>>
BY DEF Plain, StartScheduler, SwitchToApp, AdvanceChk, CheckPending, FindChannel, AppendWaiting,
       SetSrc, SetDst, LoadBits, AssertPending, PrintSuccess, Yield, SpinForever, OtherInstr,
       StoreDesc, regVars

LEMMA ThreadEffect ==
  ThreadStep => UNCHANGED <<descs, emitted, cpuVars>>
BY DEF ThreadStep, EvStep, WorkerStep, EvCheck, EvBlock, EvDispatch, BeginTask, EndDelay,
       BusLoad, BusStore, LoadPending, ClearPending, FreeWorker, regVars, queueVars

-----------------------------------------------------------------------------
(* The pending bits *)

LEMMA BitsStep ==
  TypeOK /\ OneModifier /\ FTypes /\ Place /\ BitsAgree /\ [FNext]_allVars => BitsAgree'
<1> SUFFICES ASSUME TypeOK, OneModifier, FTypes, Place, BitsAgree, [FNext]_allVars PROVE BitsAgree'
  OBVIOUS
<1> USE AppIsCtx DEF FTypes, Labels, Goto, At, Place, Choosing, Started, BitsAgree, Held
<1>1. \A w \in Workers : stage[w] = "modify" <=> regMutex = w
  BY DEF OneModifier
<1>2. pend["rd"] \subseteq Bits /\ cval \subseteq Bits /\ "rd" \in Kinds /\ pend \in [Kinds -> SUBSET Bits]
  BY DEF TypeOK, Kinds
<1>3. NoId \notin Workers
  BY DEF NoId, Workers
<1>4. ASSUME Plain, UNCHANGED fpc, UNCHANGED <<freeChn, loaded>> PROVE BitsAgree'
  BY <1>4, PlainEffect DEF cpuVars
<1>5. ASSUME StartScheduler \/ SwitchToApp \/ AdvanceChk
             \/ \E k \in Kinds, next \in {"check_wr", "switch"} : CheckPending(k, next)
      PROVE  BitsAgree'
  <2>1. \A c \in Apps : fpc'[c] = fpc[c] /\ freeChn'[c] = freeChn[c] /\ loaded'[c] = loaded[c]
    BY <1>5 DEF StartScheduler, SwitchToApp, AdvanceChk, CheckPending
  <2>2. cpc = "ready" /\ UNCHANGED <<pend, stage, snap, cpc, cval>>
    BY <1>5, PlainEffect DEF Plain, cpuVars
  <2> QED
    BY <2>1, <2>2
<1>6. ASSUME NEW c \in Apps, FindChannel(c) PROVE BitsAgree'
  <2>1. cpc = "ready" /\ UNCHANGED <<pend, stage, snap, cpc, cval>>
    BY <1>6, PlainEffect DEF Plain, cpuVars
  <2> QED
    BY <1>6, <2>1 DEF FindChannel
<1>7. ASSUME NEW c \in Apps,
             AppendWaiting(c) \/ SetSrc(c) \/ SetDst(c) \/ AssertPending(c) \/ PrintSuccess(c)
             \/ Yield(c, "wait", "resumed") \/ Yield(c, "yield", "main_loop") \/ SpinForever(c)
      PROVE  BitsAgree'
  <2>1. cpc = "ready" /\ UNCHANGED <<pend, stage, snap, cpc, cval>>
    BY <1>7, PlainEffect DEF Plain, cpuVars
  <2> QED
    BY <1>7, <2>1 DEF AppendWaiting, SetSrc, SetDst, AssertPending, PrintSuccess, Yield,
                      SpinForever, fwVars
<1>8. ASSUME NEW c \in Apps, LoadBits(c) PROVE BitsAgree'
  <2>1. cpc = "ready" /\ UNCHANGED <<pend, stage, snap, cpc, cval>>
    BY <1>8, PlainEffect DEF Plain, cpuVars
  <2> QED
    BY <1>8, <2>1 DEF LoadBits
<1>9. ASSUME NEW c \in Apps, StoreBits(c) PROVE BitsAgree'
  <2>1. /\ cpc = "ready" /\ cpc' = "mask" /\ cval' = loaded[c] \cup {freeChn[c]}
        /\ pend' = [pend EXCEPT !["rd"] = loaded[c] \cup {freeChn[c]}]
        /\ UNCHANGED <<stage, snap>>
    BY <1>9 DEF StoreBits, StorePending, workerVars
  <2>2. pend["rd"] \subseteq loaded[c] /\ fpc[c] = "store_bits" /\ fpc' = [fpc EXCEPT ![c] = "assert"]
    BY <1>9 DEF StoreBits
  <2>3. \A a \in Apps : fpc'[a] \notin Choosing
    BY <2>2
  <2>4. pend'["rd"] = cval'
    BY <1>2, <2>1
  <2> QED
    BY <1>2, <2>1, <2>2, <2>3, <2>4
<1>10. ASSUME MaskPending, UNCHANGED fwVars PROVE BitsAgree'
  <2>1. pend' = [pend EXCEPT !["rd"] = pend["rd"] \cup cval] /\ cpc = "mask" /\ cpc' # "mask"
        /\ regMutex = NoId /\ UNCHANGED <<stage, snap>>
    BY <1>10 DEF MaskPending, workerVars
  <2>2. \A a \in Apps : fpc'[a] \notin Choosing
    BY <1>10, <2>1 DEF fwVars
  <2> QED
    BY <1>1, <1>2, <1>3, <2>1, <2>2
<1>11. ASSUME Emit \/ NotifyQueue \/ Retire, UNCHANGED fwVars PROVE BitsAgree'
  <2>1. cpc # "mask" /\ cpc' # "mask" /\ UNCHANGED <<pend, stage, snap>>
    BY <1>11 DEF Emit, NotifyQueue, Retire, regVars, workerVars
  <2> QED
    BY <1>11, <2>1 DEF fwVars
<1>12. ASSUME NEW w \in Workers, LoadPending(w), UNCHANGED fwVars PROVE BitsAgree'
  BY <1>1, <1>2, <1>3, <1>12 DEF LoadPending, regVars, cpuVars, fwVars, TypeOK
<1>13. ASSUME NEW w \in Workers, ClearPending(w), UNCHANGED fwVars PROVE BitsAgree'
  <2>1. /\ pend' = [pend EXCEPT !["rd"] = snap[w] \ {EventOf(w).chnID}]
        /\ UNCHANGED <<snap, cpc, cval>> /\ stage' = [stage EXCEPT ![w] = "return"]
        /\ stage[w] = "modify"
    BY <1>13 DEF ClearPending, cpuVars
  <2>2. pend'["rd"] = snap[w] \ {EventOf(w).chnID}
    BY <1>2, <2>1
  <2>3. \A v \in Workers : stage'[v] # "modify"
    BY <1>1, <2>1 DEF TypeOK
  <2>4. cpc # "mask" => pend'["rd"] \subseteq pend["rd"]
    BY <2>1, <2>2
  <2>5. \A a \in Apps : fpc[a] \in Choosing => cpc # "mask"
    OBVIOUS
  <2> QED
    BY <1>13, <2>1, <2>2, <2>3, <2>4, <2>5 DEF fwVars
<1>14. ASSUME ThreadStep, UNCHANGED fwVars,
              \A w \in Workers : ~LoadPending(w) /\ ~ClearPending(w)
       PROVE  BitsAgree'
  <2>1. UNCHANGED <<pend, snap, cpc, cval>>
    BY <1>14 DEF ThreadStep, EvStep, WorkerStep, EvCheck, EvBlock, EvDispatch, BeginTask, EndDelay,
                 BusLoad, BusStore, FreeWorker, regVars, cpuVars, workerVars
  <2>2. \A w \in Workers : stage'[w] = "modify" => stage[w] = "modify"
    BY <1>14 DEF ThreadStep, EvStep, WorkerStep, EvCheck, EvBlock, EvDispatch, BeginTask, EndDelay,
                 BusLoad, BusStore, FreeWorker, workerVars, TypeOK
  <2> QED
    BY <1>14, <2>1, <2>2 DEF fwVars
<1>15. CASE UNCHANGED allVars
  BY <1>15 DEF allVars, vars, fwVars, regVars, workerVars, cpuVars
<1> QED
  BY <1>5, <1>6, <1>7, <1>8, <1>9, <1>10, <1>11, <1>12, <1>13, <1>14, <1>15, CtxCases
     DEF FNext, Plain, HandlerStep

-----------------------------------------------------------------------------
(* The pool *)

LEMMA LanesStep ==
  TypeOK /\ EventsConserved /\ LanesApart /\ [Next]_vars => LanesApart'
<1> SUFFICES ASSUME TypeOK, EventsConserved, LanesApart, [Next]_vars PROVE LanesApart'
  OBVIOUS
<1> USE DEF LanesApart, Busy
<1>1. lane \in [Workers -> Ids \cup {NoId}] /\ stage \in [Workers -> Stages]
      /\ status \in [Ids -> {"new", "accepted", "running", "done"}]
      /\ NoId \notin Ids
  BY DEF TypeOK, Ids, NoId
<1>2. CASE EvDispatch
  <2>1. hand \in Ids /\ status[hand] = "new"
    BY <1>2 DEF EvDispatch, TypeOK, EventsConserved, Pool!Accept
  <2>2. PICK w \in Workers : Pool!Accept(w, hand)
    BY <1>2 DEF EvDispatch
  <2>3. lane' = [lane EXCEPT ![w] = hand] /\ status' = [status EXCEPT ![hand] = "accepted"]
        /\ lane[w] = NoId
    BY <2>2 DEF Pool!Accept
  <2>4. UNCHANGED stage
    BY <1>2 DEF EvDispatch, workerVars
  <2> QED
    BY <1>1, <2>1, <2>3, <2>4
<1>3. ASSUME NEW w \in Workers, BeginTask(w) PROVE LanesApart'
  <2>1. lane[w] # NoId /\ status' = [status EXCEPT ![lane[w]] = "running"] /\ UNCHANGED lane
    BY <1>3 DEF BeginTask, Pool!Begin
  <2>2. \A v \in Workers : v # w => stage'[v] = stage[v]
    BY <1>1, <1>3 DEF BeginTask
  <2> QED
    BY <1>1, <2>1, <2>2
<1>4. ASSUME NEW w \in Workers, ClearPending(w) PROVE LanesApart'
  <2>1. lane[w] # NoId /\ status' = [status EXCEPT ![lane[w]] = "done"] /\ UNCHANGED lane
        /\ stage' = [stage EXCEPT ![w] = "return"]
    BY <1>4 DEF ClearPending, Pool!Finish
  <2> QED
    BY <1>1, <2>1
<1>5. ASSUME NEW w \in Workers, FreeWorker(w) PROVE LanesApart'
  <2>1. lane' = [lane EXCEPT ![w] = NoId] /\ UNCHANGED status
        /\ stage' = [stage EXCEPT ![w] = "idle"]
    BY <1>5 DEF FreeWorker, Pool!Free
  <2> QED
    BY <1>1, <2>1
<1>6. ASSUME NEW w \in Workers, EndDelay(w) \/ BusLoad(w) \/ BusStore(w) \/ LoadPending(w)
      PROVE  LanesApart'
  <2>1. UNCHANGED <<lane, status>> /\ stage[w] \in Busy
        /\ \A v \in Workers : v # w => stage'[v] = stage[v]
    BY <1>1, <1>6 DEF EndDelay, BusLoad, BusStore, LoadPending, poolVars
  <2> QED
    BY <2>1
<1>7. CASE UNCHANGED PoolStageVars
  BY <1>7 DEF PoolStageVars
<1> QED
  BY <1>2, <1>3, <1>4, <1>5, <1>6, <1>7
     DEF Next, AnyStore, HandlerStep, ThreadStep, EvStep, WorkerStep, vars, workerVars, poolVars,
         PoolStageVars, StorePending, StoreDesc, StoreMem, OtherInstr, MaskPending, Emit,
         NotifyQueue, Retire, EvCheck, EvBlock, StopFlag, StopNotify, StopJoin

\* A worker inside a handler runs a transfer that has been started and is not over.
LEMMA BusyIsLive ==
  ASSUME TypeOK, EventsConserved, LanesApart, NEW w \in Workers,
         stage[w] \in Busy
  PROVE  lane[w] \in Live /\ EventOf(w) = emitted[lane[w]]
<1>1. lane[w] \in Ids /\ status[lane[w]] = "running"
  BY DEF LanesApart, TypeOK
<1>2. lane[w] <= Dispatched
  BY <1>1 DEF EventsConserved
<1>3. Len(emitted) \in Nat /\ Len(eventQueue) \in Nat /\ DOMAIN emitted = 1 .. Len(emitted)
  BY LenProperties DEF TypeOK
<1>4. lane[w] \in DOMAIN emitted
  BY <1>1, <1>2, <1>3, ControllerAssumption DEF Dispatched, Ids
<1> QED
  BY <1>1, <1>4 DEF Live, EventOf

-----------------------------------------------------------------------------
(* The transfers *)

LEMMA LaneStarted ==
  ASSUME TypeOK, EventsConserved, LanesApart, NEW w \in Workers, lane[w] # NoId
  PROVE  lane[w] \in DOMAIN emitted
<1>1. lane[w] \in Ids /\ lane[w] <= Dispatched
  BY DEF LanesApart, TypeOK, EventsConserved
<1>2. Len(emitted) \in Nat /\ Len(eventQueue) \in Nat /\ DOMAIN emitted = 1 .. Len(emitted)
  BY LenProperties DEF TypeOK
<1> QED
  BY <1>1, <1>2, ControllerAssumption DEF Dispatched, Ids

\* What the handler does when it emits, in terms of the firmware.
LEMMA EmitFacts ==
  ASSUME TypeOK, Place, Emit
  PROVE  \E k \in todo :
             /\ DOMAIN emitted' = DOMAIN emitted \cup {Len(emitted) + 1}
             /\ \A i \in DOMAIN emitted : emitted'[i] = emitted[i] /\ i < Len(emitted) + 1
             /\ emitted'[Len(emitted) + 1] = EventNow(k)
             /\ todo' = todo \ {k}
             /\ cpc = "emit" /\ cpc' = "notify"
             /\ UNCHANGED <<pend, descs, status, lane, stage, waited>>
<1>1. creg = "rd" /\ emitted \in Seq(Event) /\ todo \in SUBSET Chn
  BY DEF Place, TypeOK
<1>2. PICK k \in todo : emitted' = Append(emitted, EventNow(k)) /\ todo' = todo \ {k}
  BY <1>1 DEF Emit, Lowest, EventNow
<1>3. Len(emitted) \in Nat /\ DOMAIN emitted = 1 .. Len(emitted)
  BY <1>1, LenProperties
<1>4. EventNow(k) \in Event
  BY <1>1 DEF EventNow, Event, Kinds, TypeOK, Desc
<1>5. /\ Len(emitted') = Len(emitted) + 1
      /\ \A i \in 1 .. Len(emitted) : emitted'[i] = emitted[i]
      /\ emitted'[Len(emitted) + 1] = EventNow(k)
      /\ emitted' \in Seq(Event)
  BY <1>1, <1>2, <1>3, <1>4, AppendProperties
<1>6. DOMAIN emitted' = 1 .. Len(emitted) + 1
  BY <1>5, LenProperties
<1> QED
  BY <1>2, <1>3, <1>5, <1>6 DEF Emit, regVars, poolVars, workerVars

LEMMA EmittedStays == [FNext]_allVars => UNCHANGED emitted \/ (Emit /\ UNCHANGED fwVars)
<1>1. \A c \in Apps : StoreBits(c) => UNCHANGED emitted
  BY DEF StoreBits, StorePending, queueVars
<1>2. Plain => UNCHANGED emitted
  BY PlainEffect DEF queueVars
<1>3. MaskPending \/ NotifyQueue \/ Retire => UNCHANGED emitted
  BY DEF MaskPending, NotifyQueue, Retire, queueVars
<1> QED
  BY <1>1, <1>2, <1>3, CtxCases, ThreadEffect DEF FNext, HandlerStep, allVars, vars, queueVars

\* A channel that was started twice stays one.
LEMMA RestartedStays ==
  ASSUME TypeOK, Place, [FNext]_allVars, NEW k, Restarted(k)
  PROVE  Restarted(k)'
<1>1. CASE UNCHANGED emitted
  BY <1>1 DEF Restarted
<1>2. CASE Emit
  BY <1>2, EmitFacts DEF Restarted
<1> QED
  BY <1>1, <1>2, EmittedStays

\* Only Finish ends a transfer, and none begins again.
LEMMA DoneStays ==
  ASSUME TypeOK, [Next]_vars, NEW id \in Ids, status[id] = "done"
  PROVE  status'[id] = "done"
<1>1. status \in [Ids -> {"new", "accepted", "running", "done"}]
      /\ lane \in [Workers -> Ids \cup {NoId}]
  BY DEF TypeOK
<1>2. ASSUME NEW w \in Workers, Pool!Begin(w) \/ Pool!Finish(w) \/ Pool!Free(w)
      PROVE  status'[id] = "done"
  BY <1>1, <1>2 DEF Pool!Begin, Pool!Finish, Pool!Free
<1>3. ASSUME NEW w \in Workers, Pool!Accept(w, hand) PROVE status'[id] = "done"
  BY <1>1, <1>3 DEF Pool!Accept
<1>4. CASE UNCHANGED status
  BY <1>4
<1> QED
  BY <1>2, <1>3, <1>4
     DEF Next, AnyStore, HandlerStep, ThreadStep, EvStep, WorkerStep, vars, poolVars,
         StorePending, StoreDesc, StoreMem, OtherInstr, MaskPending, Emit,
         NotifyQueue, Retire, EvCheck, EvBlock, EvDispatch, StopFlag, StopNotify, StopJoin,
         BeginTask, EndDelay, BusLoad, BusStore, LoadPending, ClearPending, FreeWorker

LEMMA LiveShrinks ==
  ASSUME TypeOK, [Next]_vars, UNCHANGED emitted
  PROVE  Live' \subseteq Live
<1>1. DOMAIN emitted \subseteq Ids
  BY LenProperties, ControllerAssumption DEF TypeOK, Ids
<1> QED
  BY <1>1, DoneStays DEF Live

\* What is under way is as it was, if no descriptor and no bit of it was touched.
LEMMA OneLiveKept ==
  ASSUME OneLive, UNCHANGED emitted, Live' \subseteq Live,
         \A id \in Live' : \A k : k = emitted[id].chnID =>
             Restarted(k) \/ (EventNow(k)' = EventNow(k) /\ (k \in Held => k \in Held'))
  PROVE  OneLive'
<1>1. \A k : Restarted(k)' <=> Restarted(k)
  BY DEF Restarted
<1>2. \A id \in Live' : \A k : k = emitted[id].chnID =>
          Restarted(k)' \/ (emitted[id] = EventNow(k)' /\ k \in Held')
  BY <1>1 DEF OneLive
<1>3. \A i, j \in Live' : \A k : i # j /\ k = emitted[i].chnID /\ k = emitted[j].chnID
                              => Restarted(k)'
  BY <1>1 DEF OneLive
<1>4. \A id \in DOMAIN emitted : emitted[id].type = "rd"
  BY DEF OneLive
<1> QED
  BY <1>2, <1>3, <1>4 DEF OneLive, Restarted, EventNow

LEMMA StoreBitsFacts ==
  ASSUME TypeOK, NEW c \in Apps, StoreBits(c)
  PROVE  /\ cpc = "ready" /\ cpc' = "mask" /\ cval' = loaded[c] \cup {freeChn[c]}
         /\ fpc[c] = "store_bits" /\ fpc' = [fpc EXCEPT ![c] = "assert"]
         /\ UNCHANGED <<descs, emitted, status, lane, stage, waited, todo, freeChn, currentCtx>>
BY DEF StoreBits, StorePending, At, Goto, queueVars, poolVars, workerVars

LEMMA PlainFacts ==
  Plain => /\ cpc = "ready" /\ Tick /\ Held' = Held
           /\ UNCHANGED <<pend, emitted, status, lane, stage, snap, cpc, todo, cval>>
BY PlainEffect DEF Held, queueVars, poolVars, cpuVars

\* The descriptors change only for a channel an application has found free.
LEMMA DescStays ==
  ASSUME TypeOK, Place, Plain, NEW k,
         \A c \in Apps : fpc[c] \in Choosing => freeChn[c] # k
  PROVE  EventNow(k)' = EventNow(k)
<1>1. ASSUME NEW c \in Apps, SetSrc(c) \/ SetDst(c) PROVE EventNow(k)' = EventNow(k)
  <2>1. fpc[c] \in Choosing /\ freeChn[c] \in Chn
    BY <1>1 DEF SetSrc, SetDst, At, Choosing, Place
  <2>2. PICK field \in {"src", "dst"} : \E a : descs' = [descs EXCEPT !["rd"][freeChn[c]][field] = a]
    BY <1>1 DEF SetSrc, SetDst, StoreDesc
  <2>3. PICK a : descs' = [descs EXCEPT !["rd"][freeChn[c]][field] = a]
    BY <2>2
  <2>4. descs'["rd"] = [descs["rd"] EXCEPT ![freeChn[c]] = [@ EXCEPT ![field] = a]]
    BY <2>3 DEF TypeOK, Kinds
  <2>5. freeChn[c] # k
    BY <2>1
  <2>6. descs'["rd"][k] = descs["rd"][k]
    BY <2>1, <2>4, <2>5 DEF TypeOK, Kinds
  <2> QED
    BY <2>6 DEF EventNow
<1>2. CASE UNCHANGED descs
  BY <1>2 DEF EventNow
<1> QED
  BY <1>1, <1>2 DEF Plain, StartScheduler, SwitchToApp, AdvanceChk, CheckPending, FindChannel,
       AppendWaiting, LoadBits, AssertPending, PrintSuccess, Yield, SpinForever, OtherInstr, regVars

\* A transfer that ends takes its bit along, and no other; where it writes over an
\* uncorrected register it takes none.
LEMMA ClearHeld ==
  ASSUME TypeOK, BitsAgree, NEW w \in Workers, ClearPending(w), NEW k \in Held,
         k # EventOf(w).chnID \/ cpc = "mask"
  PROVE  k \in Held'
<1>1. pend' = [pend EXCEPT !["rd"] = snap[w] \ {EventOf(w).chnID}] /\ UNCHANGED <<cpc, cval>>
      /\ stage[w] = "modify"
  BY DEF ClearPending, cpuVars
<1>2. pend'["rd"] = snap[w] \ {EventOf(w).chnID}
  BY <1>1 DEF TypeOK, Kinds
<1> QED
  BY <1>1, <1>2 DEF BitsAgree, Held

LEMMA ClearFacts ==
  ASSUME NEW w \in Workers, TypeOK, ClearPending(w)
  PROVE  /\ UNCHANGED <<descs, emitted, lane, cpuVars, waited>> /\ lane[w] \in Ids
         /\ status' = [status EXCEPT ![lane[w]] = "done"]
         /\ stage[w] = "modify" /\ stage' = [stage EXCEPT ![w] = "return"]
BY DEF ClearPending, Pool!Finish, queueVars, TypeOK

\* The steps of threads that touch neither a bit nor the end of a transfer.
Quiet == \/ NotifyQueue \/ Retire \/ EvStep
         \/ \E w \in Workers : \/ BeginTask(w) \/ EndDelay(w) \/ BusLoad(w) \/ BusStore(w)
                               \/ LoadPending(w) \/ FreeWorker(w)

LEMMA QuietFacts ==
  Quiet => Held' = Held /\ UNCHANGED <<pend, descs, emitted, cval, todo>>
           /\ (cpc' = cpc \/ NotifyQueue \/ Retire)
BY DEF Quiet, NotifyQueue, Retire, EvStep, EvCheck, EvBlock, EvDispatch, BeginTask, EndDelay,
       BusLoad, BusStore, LoadPending, FreeWorker, regVars, queueVars, cpuVars, Held

LEMMA FirmwareCases ==
  [FNext]_allVars => \/ Plain
                     \/ \E c \in Apps : StoreBits(c)
                     \/ MaskPending /\ UNCHANGED fwVars
                     \/ Emit /\ UNCHANGED fwVars
                     \/ Quiet /\ UNCHANGED fwVars
                     \/ (\E w \in Workers : ClearPending(w)) /\ UNCHANGED fwVars
                     \/ UNCHANGED allVars
BY CtxCases DEF FNext, HandlerStep, ThreadStep, WorkerStep, Quiet

LEMMA MaskFacts ==
  ASSUME TypeOK, BitsAgree, Place, MaskPending
  PROVE  /\ Held' = Held /\ todo' \subseteq Held /\ cpc = "mask" /\ cpc' \in {"emit", "retire"}
         /\ UNCHANGED <<descs, emitted, status, lane, stage, waited>>
<1>1. creg = "rd" /\ cpc = "mask" /\ Held = cval /\ pend["rd"] \subseteq cval
  BY DEF MaskPending, Place, BitsAgree, Held
<1>2. pend' = [pend EXCEPT !["rd"] = pend["rd"] \cup (cval \ pend["rd"])]
  BY <1>1 DEF MaskPending
<1>3. pend'["rd"] = cval
  BY <1>1, <1>2 DEF TypeOK, Kinds
<1>4. cpc' \in {"emit", "retire"}
  BY DEF MaskPending
<1>5. todo' \subseteq cval
  BY <1>1 DEF MaskPending, Lowest
<1> QED
  BY <1>1, <1>3, <1>4, <1>5 DEF Held, MaskPending, queueVars, poolVars, workerVars

LEMMA OneLiveStep == FInv /\ [FNext]_allVars => OneLive'
<1> SUFFICES ASSUME FInv, [FNext]_allVars PROVE OneLive'
  OBVIOUS
<1> USE DEF FInv, IInv
<1>1. [Next]_vars
  BY StepIsProgram
<1>2. UNCHANGED emitted => Live' \subseteq Live
  BY <1>1, LiveShrinks
<1>3. CASE Plain
  <2>1. UNCHANGED emitted /\ Held' = Held /\ cpc = "ready"
    BY <1>3, PlainFacts
  <2>2. ASSUME NEW id \in Live, NEW k, k = emitted[id].chnID, ~Restarted(k)
        PROVE  EventNow(k)' = EventNow(k)
    <3>1. \A c \in Apps : fpc[c] \in Choosing => freeChn[c] # k
      BY <2>2 DEF OwnChannel, Idle
    <3> QED
      BY <1>3, <3>1, DescStays
  <2> QED
    BY <1>2, <2>1, <2>2, OneLiveKept
<1>4. ASSUME NEW c \in Apps, StoreBits(c) PROVE OneLive'
  <2>1. UNCHANGED <<emitted, descs>> /\ Held \subseteq Held'
    BY <1>4, StoreBitsFacts DEF BitsAgree, Held
  <2> QED
    BY <1>2, <2>1, OneLiveKept DEF EventNow
<1>5. CASE MaskPending
  BY <1>2, <1>5, MaskFacts, OneLiveKept DEF EventNow
<1>6. CASE Emit
  <2>1. PICK k \in todo :
             /\ DOMAIN emitted' = DOMAIN emitted \cup {Len(emitted) + 1}
             /\ \A i \in DOMAIN emitted : emitted'[i] = emitted[i] /\ i < Len(emitted) + 1
             /\ emitted'[Len(emitted) + 1] = EventNow(k)
             /\ cpc = "emit" /\ cpc' = "notify"
             /\ UNCHANGED <<pend, descs, status>>
    BY <1>6, EmitFacts
  <2> DEFINE n == Len(emitted) + 1
  <2>2. \A i \in DOMAIN emitted : emitted[i] = EventNow(k) => Restarted(k)'
    BY <2>1 DEF Restarted, EventNow
  <2>3. \A x : Restarted(x) => Restarted(x)'
    BY RestartedStays
  <2>4. Held' = Held /\ \A x : EventNow(x)' = EventNow(x)
    BY <2>1 DEF Held, EventNow
  <2>5. Live' \subseteq Live \cup {n}
    BY <2>1 DEF Live
  <2>6. Restarted(k)' \/ k \in Held
    BY <2>1, <2>2, <2>3 DEF ToStart
  <2>7. \A id \in DOMAIN emitted' : emitted'[id].type = "rd"
    BY <2>1 DEF OneLive, EventNow
  <2>8. emitted'[n].chnID = k
    BY <2>1 DEF EventNow
  <2>9. ASSUME NEW id \in Live', NEW x, x = emitted'[id].chnID, ~Restarted(x)'
        PROVE  emitted'[id] = EventNow(x)' /\ x \in Held'
    <3>1. CASE id = n
      BY <2>1, <2>4, <2>6, <2>8, <2>9, <3>1
    <3>2. CASE id \in Live
      <4>1. emitted'[id] = emitted[id] /\ ~Restarted(x)
        BY <2>1, <2>3, <2>9, <3>2 DEF Live
      <4> QED
        BY <2>4, <2>9, <3>2, <4>1 DEF OneLive
    <3> QED
      BY <2>5, <3>1, <3>2
  <2>10. ASSUME NEW i \in Live, NEW x, x = emitted'[i].chnID, x = k PROVE Restarted(x)'
    <3>1. emitted'[i] = emitted[i] /\ i \in DOMAIN emitted
      BY <2>1 DEF Live
    <3>2. Restarted(x) \/ emitted[i] = EventNow(k)
      BY <2>10, <3>1 DEF OneLive
    <3> QED
      BY <2>2, <2>3, <2>10, <3>1, <3>2
  <2>11. ASSUME NEW i \in Live', NEW j \in Live', NEW x, i # j,
                x = emitted'[i].chnID, x = emitted'[j].chnID
         PROVE  Restarted(x)'
    <3>1. CASE i = n
      BY <2>5, <2>8, <2>10, <2>11, <3>1
    <3>2. CASE j = n
      BY <2>5, <2>8, <2>10, <2>11, <3>2
    <3>3. CASE i \in Live /\ j \in Live
      <4>1. emitted'[i] = emitted[i] /\ emitted'[j] = emitted[j]
        BY <2>1, <3>3 DEF Live
      <4>2. Restarted(x)
        BY <2>11, <3>3, <4>1 DEF OneLive
      <4> QED
        BY <2>3, <4>2
    <3> QED
      BY <2>5, <3>1, <3>2, <3>3
  <2> HIDE DEF FInv, IInv
  <2> QED
    BY <2>7, <2>9, <2>11 DEF OneLive, Restarted, EventNow
<1>7. CASE Quiet
  BY <1>2, <1>7, QuietFacts, OneLiveKept DEF EventNow
<1>8. ASSUME NEW w \in Workers, ClearPending(w) PROVE OneLive'
  <2>1. UNCHANGED <<descs, emitted>> /\ lane[w] \in Ids /\ status' = [status EXCEPT ![lane[w]] = "done"]
        /\ stage[w] \in Busy
    BY <1>8, ClearFacts DEF Busy
  <2>2. lane[w] \in Live /\ lane[w] \notin Live'
    BY <2>1, BusyIsLive DEF Live, TypeOK
  <2>3. ASSUME NEW id \in Live', NEW k, k = emitted[id].chnID, ~Restarted(k)
        PROVE  k # EventOf(w).chnID
    BY <1>2, <2>1, <2>2, <2>3 DEF OneLive, EventOf
  <2>4. \A k \in Held : k # EventOf(w).chnID => k \in Held'
    BY <1>8, ClearHeld
  <2>5. \A k : EventNow(k)' = EventNow(k)
    BY <2>1 DEF EventNow
  <2>6. \A id \in Live' : \A k : k = emitted[id].chnID =>
            Restarted(k) \/ (EventNow(k)' = EventNow(k) /\ (k \in Held => k \in Held'))
    BY <2>3, <2>4, <2>5
  <2> QED
    BY <1>2, <2>1, <2>6, OneLiveKept
<1>9. CASE UNCHANGED allVars
  BY <1>2, <1>9, OneLiveKept DEF allVars, vars, regVars, queueVars, cpuVars, EventNow, Held
<1> QED
  BY <1>3, <1>4, <1>5, <1>6, <1>7, <1>8, <1>9, FirmwareCases

LEMMA ToStartStep == FInv /\ [FNext]_allVars => ToStart'
<1> SUFFICES ASSUME FInv, [FNext]_allVars PROVE ToStart'
  OBVIOUS
<1> USE DEF FInv, IInv
<1>1. \A k : Restarted(k) => Restarted(k)'
  BY RestartedStays
<1>2. ASSUME NEW k, cpc' \in {"emit", "notify"}, k \in todo', ~Restarted(k)', k \notin Held'
      PROVE  \E id \in DOMAIN emitted' : emitted'[id] = EventNow(k)'
  <2>1. CASE Plain
    BY <1>2, <2>1, PlainFacts
  <2>2. ASSUME NEW c \in Apps, StoreBits(c) PROVE FALSE
    BY <1>2, <2>2, StoreBitsFacts
  <2>3. CASE MaskPending
    BY <1>2, <2>3, MaskFacts
  <2>4. CASE Emit
    <3>1. PICK x \in todo :
             /\ DOMAIN emitted' = DOMAIN emitted \cup {Len(emitted) + 1}
             /\ \A i \in DOMAIN emitted : emitted'[i] = emitted[i] /\ i < Len(emitted) + 1
             /\ todo' = todo \ {x}
             /\ cpc = "emit" /\ cpc' = "notify"
             /\ UNCHANGED <<pend, descs, status>>
      BY <2>4, EmitFacts
    <3>2. k \in todo /\ ~Restarted(k) /\ k \notin Held
      BY <1>1, <1>2, <3>1 DEF Held
    <3>3. PICK id \in DOMAIN emitted : emitted[id] = EventNow(k)
      BY <3>1, <3>2 DEF ToStart
    <3> QED
      BY <3>1, <3>3 DEF EventNow
  <2>5. CASE Quiet
    <3>1. Held' = Held /\ UNCHANGED <<descs, emitted, todo>> /\ (cpc' = cpc \/ NotifyQueue \/ Retire)
      BY <2>5, QuietFacts
    <3>2. cpc \in {"emit", "notify"}
      BY <1>2, <3>1 DEF NotifyQueue, Retire
    <3> QED
      BY <1>1, <1>2, <3>1, <3>2 DEF ToStart, EventNow
  <2>6. ASSUME NEW w \in Workers, ClearPending(w)
        PROVE  \E id \in DOMAIN emitted' : emitted'[id] = EventNow(k)'
    <3>1. UNCHANGED <<descs, emitted, cpc, todo>> /\ stage[w] \in Busy
      BY <2>6, ClearFacts DEF Busy, cpuVars
    <3>2. ~Restarted(k) /\ EventNow(k)' = EventNow(k)
      BY <1>1, <1>2, <3>1 DEF EventNow
    <3>3. CASE k \in Held
      <4>1. k = EventOf(w).chnID
        BY <1>2, <2>6, <3>3, ClearHeld
      <4>2. lane[w] \in Live /\ emitted[lane[w]].chnID = k
        BY <3>1, <4>1, BusyIsLive
      <4>3. emitted[lane[w]] = EventNow(k)
        BY <3>2, <4>2 DEF OneLive
      <4> QED
        BY <3>1, <3>2, <4>2, <4>3 DEF Live
    <3>4. CASE k \notin Held
      BY <1>2, <3>1, <3>2, <3>4 DEF ToStart
    <3> QED
      BY <3>3, <3>4
  <2>7. CASE UNCHANGED allVars
    BY <1>1, <1>2, <2>7 DEF allVars, vars, regVars, queueVars, cpuVars, EventNow, Held, ToStart
  <2> QED
    BY <2>1, <2>2, <2>3, <2>4, <2>5, <2>6, <2>7, FirmwareCases
<1> HIDE DEF FInv, IInv
<1> QED
  BY <1>2 DEF ToStart, Restarted, EventNow, Held

-----------------------------------------------------------------------------
(* The channel an application has found *)

\* Where an instruction of the firmware may take an application.
LEMMA PlainLabels ==
  ASSUME FTypes, Place, Plain, NEW c \in Apps
  PROVE  /\ fpc'[c] # "assert"
         /\ fpc'[c] \in Choosing =>
                /\ freeChn'[c] = freeChn[c]
                /\ fpc[c] \in Choosing \/ (fpc[c] = "find" /\ freeChn[c] \notin pend["rd"])
         /\ fpc'[c] = "failed" =>
                /\ freeChn'[c] = freeChn[c]
                /\ fpc[c] = "failed" \/ (fpc[c] = "assert" /\ freeChn[c] \notin pend["rd"])
<1> USE AppIsCtx DEF FTypes, Labels, Goto, At, Place, Choosing, Started
<1>1. CASE StartScheduler \/ SwitchToApp \/ AdvanceChk
           \/ \E k \in Kinds, next \in {"check_wr", "switch"} : CheckPending(k, next)
  <2>1. fpc'[c] = fpc[c] /\ freeChn'[c] = freeChn[c] /\ currentCtx = 0
    BY <1>1 DEF StartScheduler, SwitchToApp, AdvanceChk, CheckPending
  <2> QED
    BY <2>1
<1>2. ASSUME NEW a \in Apps, FindChannel(a) \/ AppendWaiting(a) \/ SetSrc(a) \/ SetDst(a)
                             \/ LoadBits(a) \/ AssertPending(a) \/ PrintSuccess(a)
                             \/ Yield(a, "wait", "resumed") \/ Yield(a, "yield", "main_loop")
                             \/ SpinForever(a)
      PROVE  /\ fpc'[c] # "assert"
             /\ fpc'[c] \in Choosing =>
                    /\ freeChn'[c] = freeChn[c]
                    /\ fpc[c] \in Choosing \/ (fpc[c] = "find" /\ freeChn[c] \notin pend["rd"])
             /\ fpc'[c] = "failed" =>
                    /\ freeChn'[c] = freeChn[c]
                    /\ fpc[c] = "failed" \/ (fpc[c] = "assert" /\ freeChn[c] \notin pend["rd"])
  <2>1. currentCtx = a /\ (SpinForever(a) => fpc[a] # "assert")
    BY <1>2 DEF FindChannel, AppendWaiting, SetSrc, SetDst, LoadBits, AssertPending, PrintSuccess,
                Yield, SpinForever
  <2>2. CASE c # a
    <3>1. fpc'[c] = fpc[c] /\ freeChn'[c] = freeChn[c]
      BY <1>2, <2>2 DEF FindChannel, AppendWaiting, SetSrc, SetDst, LoadBits, AssertPending,
                        PrintSuccess, Yield, SpinForever, fwVars
    <3> QED
      BY <2>1, <2>2, <3>1
  <2>3. CASE c = a
    BY <1>2, <2>1, <2>3
       DEF FindChannel, AppendWaiting, SetSrc, SetDst, LoadBits, AssertPending,
           PrintSuccess, Yield, SpinForever, fwVars
  <2> QED
    BY <2>2, <2>3
<1> QED
  BY <1>1, <1>2 DEF Plain

LEMMA AssertStep == FInv /\ [FNext]_allVars => AssertHolds'
<1> SUFFICES ASSUME FInv, [FNext]_allVars PROVE AssertHolds'
  OBVIOUS
<1> USE DEF FInv, IInv
<1>1. \A k : Restarted(k) => Restarted(k)'
  BY RestartedStays
<1>2. ASSUME NEW c \in Apps, fpc'[c] = "failed", NEW k, k = freeChn'[c] PROVE Restarted(k)'
  <2>1. CASE Plain
    <3>1. /\ k = freeChn[c]
          /\ fpc[c] = "failed" \/ (fpc[c] = "assert" /\ k \notin pend["rd"])
      BY <1>2, <2>1, PlainLabels
    <3>2. Held = pend["rd"]
      BY <2>1, PlainFacts DEF Held
    <3> QED
      BY <1>1, <1>2, <3>1, <3>2 DEF OwnChannel, AssertHolds
  <2>2. ASSUME NEW a \in Apps, StoreBits(a) PROVE Restarted(k)'
    <3>1. fpc[c] = "failed" /\ k = freeChn[c]
      BY <1>2, <2>2, StoreBitsFacts, AppIsCtx DEF FTypes
    <3> QED
      BY <1>1, <1>2, <3>1 DEF AssertHolds
  <2>3. CASE UNCHANGED fwVars
    BY <1>1, <1>2, <2>3 DEF AssertHolds, fwVars
  <2> QED
    BY <2>1, <2>2, <2>3, FirmwareCases DEF allVars
<1> HIDE DEF FInv, IInv
<1> QED
  BY <1>2 DEF AssertHolds, Restarted

LEMMA IdleStays ==
  ASSUME TypeOK, [Next]_vars, UNCHANGED emitted, NEW k, Idle(k)
  PROVE  Idle(k)'
BY LiveShrinks DEF Idle

\* Nothing under way on a channel means no worker on it.
LEMMA IdleIsFresh ==
  ASSUME TypeOK, EventsConserved, LanesApart, NEW k, Idle(k), NEW w \in Workers, stage[w] \in Busy
  PROVE  EventOf(w).chnID # k
BY BusyIsLive DEF Idle

LEMMA FreshStep ==
  ASSUME FInv, [FNext]_allVars, NEW k, Fresh(k), Quiet \/ UNCHANGED allVars,
         cpc = "ready" => cpc' = "ready"
  PROVE  Fresh(k)'
<1> USE DEF FInv, IInv, Fresh, Busy, EventOf
<1>1. /\ stage \in [Workers -> Stages] /\ waited \in [Workers -> 0 .. NrCycle]
      /\ lane \in [Workers -> Ids \cup {NoId}] /\ NrCycle \in Nat
  BY ControllerAssumption DEF TypeOK
<1>2. Recent \in {0, 1} /\ Recent' \in {0, 1} /\ Recent <= Recent'
  BY DEF Recent
<1>3. CASE NotifyQueue
  BY <1>2, <1>3 DEF NotifyQueue, queueVars, poolVars, workerVars, Recent
<1>4. CASE Retire
  <2>1. Recent = 0 /\ Recent' = 1 /\ UNCHANGED <<emitted, lane, stage>>
    BY <1>4 DEF Retire, Recent, queueVars, poolVars
  <2>2. \A w \in Workers : waited[w] <= 0 => waited'[w] <= 1
    BY <1>1, <1>4 DEF Retire, Tick
  <2> QED
    BY <1>2, <2>1, <2>2
<1>5. CASE EvStep
  <2>1. UNCHANGED <<emitted, stage, waited, cpc>>
    BY <1>5 DEF EvStep, EvCheck, EvBlock, EvDispatch, queueVars, workerVars, cpuVars
  <2>2. \A w \in Workers : stage[w] \in Busy => lane'[w] = lane[w]
    BY <1>1, <1>5 DEF EvStep, EvCheck, EvBlock, EvDispatch, Pool!Accept, LanesApart, poolVars
  <2> QED
    BY <2>1, <2>2 DEF Recent
<1>6. ASSUME NEW w \in Workers, BeginTask(w) PROVE Fresh(k)'
  <2>1. /\ UNCHANGED <<emitted, lane, cpc>> /\ lane[w] # NoId
        /\ waited' = [waited EXCEPT ![w] = 0]
        /\ stage' = [stage EXCEPT ![w] = IF EventOf(w).type = "rd" THEN "delay" ELSE "load"]
    BY <1>6 DEF BeginTask, Pool!Begin, queueVars, cpuVars
  <2>2. EventOf(w).type = "rd"
    BY <2>1, LaneStarted DEF OneLive
  <2>3. \A v \in Workers : v # w => stage'[v] = stage[v] /\ waited'[v] = waited[v]
    BY <1>1, <2>1
  <2>4. stage'[w] = "delay" /\ waited'[w] = 0
    BY <1>1, <2>1, <2>2
  <2>5. Recent' = Recent
    BY <2>1 DEF Recent
  <2> QED
    BY <1>2, <2>1, <2>3, <2>4, <2>5
<1>7. ASSUME NEW w \in Workers, EndDelay(w) PROVE Fresh(k)'
  <2>1. UNCHANGED <<emitted, lane, cpc, waited>> /\ stage[w] = "delay" /\ waited[w] = NrCycle
        /\ \A v \in Workers : v # w => stage'[v] = stage[v]
    BY <1>1, <1>7 DEF EndDelay, queueVars, cpuVars, poolVars
  <2>2. EventOf(w).chnID # k
    BY <1>1, <1>2, <2>1, FirmwareAssumption
  <2>3. Recent' = Recent
    BY <2>1 DEF Recent
  <2> QED
    BY <2>1, <2>2, <2>3
<1>8. ASSUME NEW w \in Workers, BusLoad(w) \/ BusStore(w) \/ LoadPending(w) \/ FreeWorker(w)
      PROVE  Fresh(k)'
  <2>1. UNCHANGED <<emitted, cpc, waited>>
        /\ \A v \in Workers : v # w => stage'[v] = stage[v] /\ lane'[v] = lane[v]
    BY <1>1, <1>8 DEF BusLoad, BusStore, LoadPending, FreeWorker, queueVars, cpuVars, poolVars, Pool!Free
  <2>2. stage'[w] = "idle" \/ (lane'[w] = lane[w] /\ EventOf(w).chnID # k)
    BY <1>1, <1>8 DEF BusLoad, BusStore, LoadPending, FreeWorker, poolVars
  <2>3. Recent' = Recent
    BY <2>1 DEF Recent
  <2> QED
    BY <2>1, <2>2, <2>3
<1>9. CASE UNCHANGED allVars
  BY <1>9 DEF allVars, vars, queueVars, poolVars, workerVars, cpuVars, Recent
<1> QED
  BY <1>3, <1>4, <1>5, <1>6, <1>7, <1>8, <1>9 DEF Quiet

LEMMA OwnStep == FInv /\ [FNext]_allVars => OwnChannel'
<1> SUFFICES ASSUME FInv, [FNext]_allVars PROVE OwnChannel'
  OBVIOUS
<1> USE DEF FInv, IInv
<1>1. \A k : Restarted(k) => Restarted(k)'
  BY RestartedStays
<1>2. [Next]_vars /\ (UNCHANGED emitted => Live' \subseteq Live)
  BY StepIsProgram, LiveShrinks
<1>3. \A k : UNCHANGED emitted /\ Idle(k) => Idle(k)'
  BY <1>2, IdleStays
<1>4. ASSUME NEW c \in Apps, fpc'[c] \in Choosing, NEW k, k = freeChn'[c], ~Restarted(k)'
      PROVE  Idle(k)'
  <2>1. CASE Plain
    <3>1. /\ k = freeChn[c] /\ ~Restarted(k) /\ UNCHANGED emitted
          /\ fpc[c] \in Choosing \/ k \notin pend["rd"]
      BY <1>1, <1>4, <2>1, PlainLabels, PlainFacts
    <3>2. Held = pend["rd"]
      BY <2>1, PlainFacts DEF Held
    <3>3. Idle(k)
      BY <1>4, <3>1, <3>2 DEF OwnChannel, OneLive, Idle
    <3> QED
      BY <1>3, <3>1, <3>3
  <2>2. ASSUME NEW a \in Apps, StoreBits(a) PROVE FALSE
    <3>1. c # a /\ fpc[c] \in Choosing /\ currentCtx = a
      BY <1>4, <2>2, StoreBitsFacts, AppIsCtx DEF FTypes, Choosing, StoreBits, At
    <3> QED
      BY <3>1 DEF Place
  <2>3. CASE UNCHANGED fwVars
    <3>1. fpc[c] \in Choosing /\ k = freeChn[c] /\ ~Restarted(k)
      BY <1>1, <1>4, <2>3 DEF fwVars
    <3>2. cpc = "ready"
      BY <3>1 DEF Place, Choosing
    <3>3. UNCHANGED emitted
      BY <3>2, EmittedStays DEF Emit
    <3> QED
      BY <1>3, <1>4, <3>1, <3>3 DEF OwnChannel
  <2> QED
    BY <2>1, <2>2, <2>3, FirmwareCases DEF allVars
<1>5. ASSUME NEW c \in Apps, fpc'[c] = "assert", NEW k, k = freeChn'[c], ~Restarted(k)'
      PROVE  k \in Held' /\ (cpc' = "mask" => Idle(k)') /\ Fresh(k)'
  <2>0. ~Restarted(k)
    BY <1>1, <1>5
  <2>1. CASE Plain
    BY <1>5, <2>1, PlainLabels
  <2>2. ASSUME NEW a \in Apps, StoreBits(a)
        PROVE  k \in Held' /\ (cpc' = "mask" => Idle(k)') /\ Fresh(k)'
    <3>1. /\ cpc' = "mask" /\ cval' = loaded[a] \cup {freeChn[a]} /\ fpc[a] = "store_bits"
          /\ fpc' = [fpc EXCEPT ![a] = "assert"]
          /\ UNCHANGED <<emitted, lane, stage, freeChn>>
      BY <2>2, StoreBitsFacts
    <3>2. c = a
      BY <1>5, <2>2, <3>1, AppIsCtx DEF FTypes, Place, StoreBits, At
    <3>3. Idle(k)
      BY <1>5, <2>0, <3>1, <3>2 DEF OwnChannel, Choosing
    <3>4. Fresh(k)'
      BY <3>1, <3>3, IdleIsFresh DEF Fresh, EventOf
    <3> QED
      BY <1>3, <1>5, <3>1, <3>2, <3>3, <3>4 DEF Held
  <2>3. ASSUME UNCHANGED fwVars
        PROVE  /\ fpc[c] = "assert" /\ k = freeChn[c]
               /\ k \in Held /\ (cpc = "mask" => Idle(k)) /\ Fresh(k)
    BY <1>5, <2>0, <2>3 DEF OwnChannel, fwVars
  <2>4. CASE MaskPending /\ UNCHANGED fwVars
    <3>1. /\ Held' = Held /\ cpc = "mask" /\ cpc' \in {"emit", "retire"}
          /\ UNCHANGED <<emitted, lane, stage>>
      BY <2>4, MaskFacts
    <3>2. k \in Held /\ Idle(k)
      BY <2>3, <2>4, <3>1
    <3>3. Fresh(k)'
      BY <3>1, <3>2, IdleIsFresh DEF Fresh, EventOf
    <3> QED
      BY <3>1, <3>2, <3>3
  <2>5. CASE Emit /\ UNCHANGED fwVars
    <3>1. /\ \A i \in DOMAIN emitted : emitted'[i] = emitted[i]
          /\ cpc = "emit" /\ cpc' = "notify"
          /\ UNCHANGED <<pend, lane, stage, waited>>
      BY <2>5, EmitFacts
    <3>2. \A w \in Workers : stage[w] \in Busy => EventOf(w)' = EventOf(w)
      BY <3>1, BusyIsLive DEF Live, EventOf
    <3>3. Recent' = Recent
      BY <3>1 DEF Recent
    <3>4. Fresh(k)'
      BY <2>3, <2>5, <3>1, <3>2, <3>3 DEF Fresh, EventOf
    <3> QED
      BY <2>3, <2>5, <3>1, <3>4 DEF Held
  <2>6. CASE (Quiet \/ UNCHANGED allVars) /\ UNCHANGED fwVars
    <3>1. Held' = Held /\ UNCHANGED emitted /\ (cpc' = cpc \/ NotifyQueue \/ Retire)
      BY <2>6, QuietFacts DEF allVars, vars, regVars, queueVars, cpuVars, Held
    <3>2. (cpc = "ready" => cpc' = "ready") /\ (cpc' = "mask" => cpc = "mask")
      BY <3>1 DEF NotifyQueue, Retire
    <3>3. Fresh(k)'
      BY <2>3, <2>6, <3>2, FreshStep
    <3> QED
      BY <1>3, <2>3, <2>6, <3>1, <3>2, <3>3
  <2>7. ASSUME NEW w \in Workers, ClearPending(w), UNCHANGED fwVars
        PROVE  k \in Held' /\ (cpc' = "mask" => Idle(k)') /\ Fresh(k)'
    <3>1. /\ UNCHANGED <<emitted, lane, waited, cpc>> /\ stage[w] = "modify"
          /\ stage' = [stage EXCEPT ![w] = "return"]
      BY <2>7, ClearFacts DEF cpuVars
    <3>2. k \in Held /\ (cpc = "mask" => Idle(k)) /\ Fresh(k)
      BY <2>3, <2>7
    <3>3. EventOf(w).chnID # k
      BY <3>1, <3>2 DEF Fresh, Busy
    <3>4. k \in Held'
      BY <2>7, <3>2, <3>3, ClearHeld
    <3>5. Fresh(k)'
      BY <3>1, <3>2 DEF Fresh, Recent, EventOf, Busy, TypeOK
    <3> QED
      BY <1>3, <3>1, <3>2, <3>4, <3>5
  <2> QED
    BY <2>1, <2>2, <2>4, <2>5, <2>6, <2>7, FirmwareCases DEF allVars
<1> HIDE DEF FInv, IInv
<1> QED
  BY <1>4, <1>5 DEF OwnChannel, Restarted, Idle, Fresh, Live, EventOf, Recent, Held

-----------------------------------------------------------------------------
(* What the firmware can rely on *)

LEMMA FInitInv == FInit => FInv
<1> SUFFICES ASSUME FInit PROVE FInv
  OBVIOUS
<1> USE AppIsCtx DEF FInit
<1>1. IInv
  BY InitInv
<1>2. /\ cpc = "ready" /\ creg = "rd" /\ emitted = <<>>
      /\ stage = [w \in Workers |-> "idle"] /\ lane = [w \in Workers |-> NoId]
  BY DEF Init, Pool!PoolInit
<1>3. \A c \in Apps : fpc[c] = "find"
  BY DEF Apps, Ctx
<1>4. FTypes
  BY FirmwareAssumption, ControllerAssumption DEF FTypes, Labels, Chn, Apps, Ctx, Bits
<1>5. Place /\ BitsAgree /\ AssertHolds
  BY <1>2, <1>3 DEF Place, BitsAgree, AssertHolds, Choosing, Started, Held
<1>6. LanesApart
  BY <1>2 DEF LanesApart, Busy
<1>7. OneLive /\ ToStart /\ OwnChannel
  BY <1>2, <1>3 DEF OneLive, ToStart, OwnChannel, Live, Choosing
<1> QED
  BY <1>1, <1>4, <1>5, <1>6, <1>7 DEF FInv

LEMMA FInvIsProgram == FInv /\ [FNext]_allVars => [Next]_vars
BY StepIsProgram DEF FInv, IInv

LEMMA FInvStep == FInv /\ [FNext]_allVars => FInv'
<1> SUFFICES ASSUME FInv, [FNext]_allVars PROVE FInv'
  OBVIOUS
<1>1. IInv /\ TypeOK /\ OneModifier /\ EventsConserved /\ FTypes /\ Place /\ BitsAgree /\ LanesApart
  BY DEF FInv, IInv
<1>2. IInv'
  BY <1>1, FInvIsProgram, NextInv
<1>3. FTypes' /\ Place' /\ BitsAgree'
  BY <1>1, FTypesStep, PlaceStep, BitsStep
<1>4. LanesApart'
  BY <1>1, FInvIsProgram, LanesStep
<1>5. OneLive' /\ ToStart' /\ OwnChannel' /\ AssertHolds'
  BY OneLiveStep, ToStartStep, OwnStep, AssertStep
<1> QED
  BY <1>2, <1>3, <1>4, <1>5 DEF FInv

\* The firmware is a program the controller is proved for: what holds of the
\* controller with any CPU (no event lost, no pending bit dropped) holds under
\* main.c.
THEOREM FirmwareIsAProgram == FSpec => Spec
<1>1. FInit => Init
  BY DEF FInit
<1> QED
  BY <1>1, FInitInv, FInvStep, FInvIsProgram, PTL DEF FSpec, Spec

\* simple_assert of main.c:173 fails only in a context whose channel has been started
\* twice for one transfer.
THEOREM AssertsOnlyAfterRestart == FSpec => []AssertHolds
<1>1. FInv => AssertHolds
  BY DEF FInv
<1> QED
  BY <1>1, FInitInv, FInvStep, PTL DEF FSpec

-----------------------------------------------------------------------------
(* The data.  Every transfer into an application's val is one from Src, and Src *)
(* is never written, so that val, once read, stays what Src is (Sources,        *)
(* Copies).  From its store on, an application's transfer is on its way, with   *)
(* its bit held, until val has it (OnItsWay); the scheduler resumes the         *)
(* application when it has seen the bit gone (Waits).                           *)

Vals == {Val[c] : c \in Apps}

\* What descriptors may hold before anything is stored to them: they do not point
\* at what the applications read, nor to where.
DescsAway == \A d \in PowerOnDesc : d.dst # Src /\ d.dst \notin Vals

Whole(d) == d.dst # Src /\ (d.dst \in Vals => d.src = Src)

Sources ==
    /\ \A id \in DOMAIN emitted : Whole(emitted[id])
    /\ \A k \in Chn : Whole(descs["rd"][k])
    /\ \A c \in Apps : fpc[c] = "set_dst" => descs["rd"][freeChn[c]].src = Src
    /\ \A c \in Apps : fpc[c] \in {"load_bits", "store_bits"} =>
           descs["rd"][freeChn[c]] = [src |-> Src, dst |-> Val[c]]

Copies == \A w \in Workers : stage[w] \in Busy /\ EventOf(w).dst \in Vals =>
              /\ stage[w] = "store" => data[w] = mem[Src]
              /\ stage[w] \in {"settle", "modify"} => mem[EventOf(w).dst] = mem[Src]

Got(c) == mem[Val[c]] = mem[Src]

OnItsWay == \A c \in Apps : fpc[c] \in Started =>
                \/ Restarted(freeChn[c]) \/ Got(c)
                \/ /\ freeChn[c] \in Held
                   /\ descs["rd"][freeChn[c]] = [src |-> Src, dst |-> Val[c]]

Waits ==
    /\ \A c \in Apps : fpc[c] \in (Choosing \ {"append"}) \cup Started =>
           freeChn[c] \in waiting["rd"][c]
    /\ fpc[0] = "start" => \A c \in Apps : fpc[c] = "find"
    /\ fpc[0] \in {"check_wr", "switch"} => waiting["rd"][chkCtx] \cap pend["rd"] = {}
    /\ currentCtx # 0 => fpc[0] = "advance"

DataInv == FInv /\ Sources /\ Copies /\ OnItsWay /\ Waits /\ ReadSuccess

LEMMA ValFacts ==
  /\ Src \in Mapped /\ Src \in Addr
  /\ \A c \in Apps : Val[c] \in Mapped /\ Val[c] # Src /\ Val[c] \in Vals
BY FirmwareAssumption, ControllerAssumption DEF Vals

LEMMA SetFacts ==
  ASSUME TypeOK, FTypes, Place, NEW c \in Apps, SetSrc(c) \/ SetDst(c)
  PROVE  /\ freeChn[c] \in Chn /\ UNCHANGED <<freeChn, currentCtx>> /\ currentCtx = c
         /\ fpc[c] \in Choosing
         /\ fpc' = [fpc EXCEPT ![c] = IF fpc[c] = "set_src" THEN "set_dst" ELSE "load_bits"]
         /\ fpc[c] \in {"set_src", "set_dst"}
         /\ \A k \in Chn : k # freeChn[c] => descs'["rd"][k] = descs["rd"][k]
         /\ descs'["rd"][freeChn[c]] =
                IF fpc[c] = "set_src" THEN [src |-> Src, dst |-> descs["rd"][freeChn[c]].dst]
                                      ELSE [src |-> descs["rd"][freeChn[c]].src, dst |-> Val[c]]
<1> USE DEF At, Goto, Choosing
<1>1. freeChn[c] \in Chn /\ currentCtx = c
  BY DEF SetSrc, SetDst, Place
<1>2. descs \in [Kinds -> [Chn -> Desc]] /\ "rd" \in Kinds
  BY DEF TypeOK, Kinds
<1>3. descs["rd"][freeChn[c]] \in [src : Addr, dst : Addr]
  BY <1>1, <1>2 DEF Desc
<1>4. CASE SetSrc(c)
  <2>1. descs' = [descs EXCEPT !["rd"] = [descs["rd"] EXCEPT ![freeChn[c]] =
                     [descs["rd"][freeChn[c]] EXCEPT !["src"] = Src]]]
    BY <1>4 DEF SetSrc, StoreDesc
  <2>2. [descs["rd"][freeChn[c]] EXCEPT !["src"] = Src] = [src |-> Src, dst |-> descs["rd"][freeChn[c]].dst]
    BY <1>3
  <2>3. descs'["rd"] = [descs["rd"] EXCEPT ![freeChn[c]] = [src |-> Src, dst |-> descs["rd"][freeChn[c]].dst]]
    BY <1>2, <2>1, <2>2
  <2> QED
    BY <1>1, <1>2, <1>4, <2>3 DEF SetSrc
<1>5. CASE SetDst(c)
  <2>1. descs' = [descs EXCEPT !["rd"] = [descs["rd"] EXCEPT ![freeChn[c]] =
                     [descs["rd"][freeChn[c]] EXCEPT !["dst"] = Val[c]]]]
    BY <1>5 DEF SetDst, StoreDesc
  <2>2. [descs["rd"][freeChn[c]] EXCEPT !["dst"] = Val[c]] = [src |-> descs["rd"][freeChn[c]].src, dst |-> Val[c]]
    BY <1>3
  <2>3. descs'["rd"] = [descs["rd"] EXCEPT ![freeChn[c]] = [src |-> descs["rd"][freeChn[c]].src, dst |-> Val[c]]]
    BY <1>2, <2>1, <2>2
  <2> QED
    BY <1>1, <1>2, <1>5, <2>3 DEF SetDst
<1> QED
  BY <1>4, <1>5

\* The other instructions leave the descriptors alone.
LEMMA DescsUntouched ==
  ASSUME Plain, \A c \in Apps : ~SetSrc(c) /\ ~SetDst(c)
  PROVE  UNCHANGED descs
BY DEF Plain, StartScheduler, SwitchToApp, AdvanceChk, CheckPending, FindChannel,
       AppendWaiting, LoadBits, AssertPending, PrintSuccess, Yield, SpinForever, OtherInstr, regVars

\* Where an instruction may take an application, once it has a channel.
LEMMA PlainGoesOn ==
  ASSUME FTypes, Place, Plain, NEW c \in Apps
  PROVE  /\ fpc'[c] \in Started => fpc[c] \in Started /\ freeChn'[c] = freeChn[c]
         /\ fpc'[c] = "set_dst" /\ fpc[c] # "set_dst" => SetSrc(c)
         /\ fpc'[c] \in {"load_bits", "store_bits"} /\ fpc[c] \notin {"load_bits", "store_bits"}
                => SetDst(c)
         /\ fpc'[c] \in Choosing => freeChn'[c] = freeChn[c]
<1> USE AppIsCtx DEF FTypes, Labels, Goto, At, Place, Choosing, Started
<1>1. CASE StartScheduler \/ SwitchToApp \/ AdvanceChk
           \/ \E k \in Kinds, next \in {"check_wr", "switch"} : CheckPending(k, next)
  <2>1. fpc'[c] = fpc[c] /\ freeChn'[c] = freeChn[c]
    BY <1>1 DEF StartScheduler, SwitchToApp, AdvanceChk, CheckPending
  <2> QED
    BY <2>1
<1>2. ASSUME NEW a \in Apps, a # c,
             FindChannel(a) \/ AppendWaiting(a) \/ SetSrc(a) \/ SetDst(a)
             \/ LoadBits(a) \/ AssertPending(a) \/ PrintSuccess(a)
             \/ Yield(a, "wait", "resumed") \/ Yield(a, "yield", "main_loop") \/ SpinForever(a)
      PROVE  fpc'[c] = fpc[c] /\ freeChn'[c] = freeChn[c]
  BY <1>2 DEF FindChannel, AppendWaiting, SetSrc, SetDst, LoadBits, AssertPending, PrintSuccess,
              Yield, SpinForever, fwVars
<1>3. CASE FindChannel(c) \/ AppendWaiting(c) \/ SetSrc(c) \/ SetDst(c) \/ LoadBits(c)
  BY <1>3 DEF FindChannel, AppendWaiting, SetSrc, SetDst, LoadBits
<1>4. CASE AssertPending(c) \/ PrintSuccess(c) \/ Yield(c, "wait", "resumed")
           \/ Yield(c, "yield", "main_loop") \/ SpinForever(c)
  BY <1>4 DEF AssertPending, PrintSuccess, Yield, SpinForever, fwVars
<1> QED
  BY <1>1, <1>2, <1>3, <1>4 DEF Plain

LEMMA SourcesStep == DataInv /\ [FNext]_allVars => Sources'
<1> SUFFICES ASSUME DataInv, [FNext]_allVars PROVE Sources'
  OBVIOUS
<1> USE DEF DataInv, FInv, IInv
<1>1. \A id \in DOMAIN emitted' : Whole(emitted'[id])
  <2>1. CASE Emit
    <3>1. PICK k \in todo :
             /\ DOMAIN emitted' = DOMAIN emitted \cup {Len(emitted) + 1}
             /\ \A i \in DOMAIN emitted : emitted'[i] = emitted[i] /\ i < Len(emitted) + 1
             /\ emitted'[Len(emitted) + 1] = EventNow(k)
      BY <2>1, EmitFacts
    <3>2. Whole(descs["rd"][k])
      BY <3>1 DEF Sources, TypeOK
    <3>3. Whole(EventNow(k))
      BY <3>2 DEF Whole, EventNow
    <3> QED
      BY <3>1, <3>3 DEF Sources
  <2> QED
    BY <2>1, EmittedStays DEF Sources
<1>2. ASSUME NEW c \in Apps, SetSrc(c) \/ SetDst(c) PROVE Sources'
  <2> DEFINE k0 == freeChn[c]
             d == descs["rd"][k0]
             e == IF fpc[c] = "set_src" THEN [src |-> Src, dst |-> d.dst]
                                        ELSE [src |-> d.src, dst |-> Val[c]]
  <2>0. /\ k0 \in Chn /\ freeChn' = freeChn /\ fpc[c] \in {"set_src", "set_dst"}
        /\ fpc'[c] = IF fpc[c] = "set_src" THEN "set_dst" ELSE "load_bits"
        /\ \A k \in Chn : k # k0 => descs'["rd"][k] = descs["rd"][k]
        /\ descs'["rd"][k0] = e
    BY <1>2, SetFacts, AppIsCtx DEF FTypes
  <2>5. e.src = Src /\ Whole(e)
    BY <2>0, ValFacts DEF Sources, Whole
  <2>1. ASSUME NEW k \in Chn PROVE Whole(descs'["rd"][k])
    BY <2>0, <2>5 DEF Sources
  <2>2. \A a \in Apps : a # c => fpc'[a] = fpc[a] /\ fpc[a] \notin Choosing
    BY <1>2, SetFacts, AppIsCtx DEF FTypes, Place
  <2>3. fpc'[c] = "set_dst" => descs'["rd"][freeChn'[c]].src = Src
    BY <2>0, <2>5
  <2>4. fpc'[c] \in {"load_bits", "store_bits"} =>
            descs'["rd"][freeChn'[c]] = [src |-> Src, dst |-> Val[c]]
    BY <2>0, <2>5
  <2> QED
    BY <1>1, <2>1, <2>2, <2>3, <2>4 DEF Sources, Choosing, Whole
<1>3. ASSUME Plain, \A c \in Apps : ~SetSrc(c) /\ ~SetDst(c) PROVE Sources'
  <2>1. UNCHANGED descs
    BY <1>3, DescsUntouched
  <2>2. ASSUME NEW c \in Apps, fpc'[c] \in {"set_dst", "load_bits", "store_bits"}
        PROVE  /\ freeChn'[c] = freeChn[c]
               /\ fpc'[c] = "set_dst" => fpc[c] = "set_dst"
               /\ fpc'[c] # "set_dst" => fpc[c] \in {"load_bits", "store_bits"}
    BY <1>3, <2>2, PlainGoesOn DEF Choosing
  <2> QED
    BY <1>1, <2>1, <2>2 DEF Sources, Whole
<1>4. ASSUME NEW c \in Apps, StoreBits(c) PROVE Sources'
  <2>1. UNCHANGED <<descs, freeChn>> /\ fpc' = [fpc EXCEPT ![c] = "assert"]
    BY <1>4, StoreBitsFacts
  <2> QED
    BY <1>1, <2>1 DEF Sources, Whole, FTypes
<1>5. CASE UNCHANGED fwVars
  <2>1. Plain => UNCHANGED descs
    <3>1. \A c \in Apps : ~SetSrc(c) /\ ~SetDst(c)
      BY <1>5, AppIsCtx DEF SetSrc, SetDst, At, Goto, FTypes, fwVars
    <3> QED
      BY <3>1, DescsUntouched
  <2>2. UNCHANGED descs
    BY <2>1, FirmwareCases, MaskFacts, EmitFacts, QuietFacts, ClearFacts, StoreBitsFacts
       DEF allVars, vars, regVars
  <2> QED
    BY <1>1, <1>5, <2>2 DEF Sources, Whole, fwVars
<1> QED
  BY <1>2, <1>3, <1>4, <1>5, FirmwareCases DEF allVars

\* A worker inside a handler keeps its transfer.
LEMMA EventKept ==
  ASSUME FInv, [FNext]_allVars, NEW w \in Workers, stage[w] \in Busy
  PROVE  EventOf(w)' = EventOf(w)
<1> USE DEF FInv, IInv
<1>1. lane'[w] = lane[w]
  <2>1. lane[w] # NoId /\ status[lane[w]] = "running" /\ lane \in [Workers -> Ids \cup {NoId}]
    BY DEF LanesApart, TypeOK
  <2>2. CASE EvDispatch
    BY <2>1, <2>2 DEF EvDispatch, Pool!Accept
  <2>3. ASSUME NEW v \in Workers, FreeWorker(v) PROVE lane'[w] = lane[w]
    BY <2>1, <2>3 DEF FreeWorker, Pool!Free
  <2>4. CASE UNCHANGED lane
    BY <2>4
  <2>5. Quiet => EvDispatch \/ (\E v \in Workers : FreeWorker(v)) \/ UNCHANGED lane
    BY DEF Quiet, EvStep, EvCheck, EvBlock, BeginTask, Pool!Begin, EndDelay, BusLoad, BusStore,
           LoadPending, NotifyQueue, Retire, poolVars
  <2> QED
    BY <2>2, <2>3, <2>4, <2>5, FirmwareCases, PlainFacts, StoreBitsFacts, MaskFacts, EmitFacts,
       ClearFacts DEF allVars, vars, poolVars
<1>2. lane[w] \in DOMAIN emitted
  BY BusyIsLive DEF Live
<1>3. emitted'[lane[w]] = emitted[lane[w]]
  BY <1>2, EmittedStays, EmitFacts
<1> QED
  BY <1>1, <1>3 DEF EventOf

LEMMA BusyIsWhole ==
  ASSUME FInv, Sources, NEW w \in Workers, stage[w] \in Busy
  PROVE  Whole(EventOf(w))
BY BusyIsLive DEF FInv, IInv, Sources, Live

\* What a worker may do to memory: nothing to Src, and into val only what Src holds.
LEMMA MemStep ==
  ASSUME DataInv, [FNext]_allVars
  PROVE  /\ mem'[Src] = mem[Src]
         /\ \A v \in Vals : mem[v] = mem[Src] => mem'[v] = mem'[Src]
<1> USE DEF DataInv, FInv, IInv
<1>1. ASSUME NEW w \in Workers, BusStore(w)
      PROVE  /\ mem'[Src] = mem[Src]
             /\ \A v \in Vals : mem[v] = mem[Src] => mem'[v] = mem'[Src]
  <2>1. stage[w] = "store" /\ Whole(EventOf(w)) /\ (EventOf(w).dst \in Vals => data[w] = mem[Src])
    BY <1>1, BusyIsWhole DEF BusStore, Busy, Copies
  <2>2. CASE EventOf(w).dst \notin Mapped
    BY <1>1, <2>2 DEF BusStore
  <2>3. CASE EventOf(w).dst \in Mapped
    <3>1. mem' = [mem EXCEPT ![EventOf(w).dst] = data[w]]
      BY <1>1, <2>3 DEF BusStore
    <3>2. mem'[Src] = mem[Src]
      BY <2>1, <3>1, ValFacts DEF Whole, TypeOK
    <3>3. ASSUME NEW v \in Vals, mem[v] = mem[Src] PROVE mem'[v] = mem'[Src]
      <4>1. v \in Mapped
        BY ValFacts DEF Vals
      <4> QED
        BY <2>1, <3>1, <3>2, <3>3, <4>1 DEF TypeOK
    <3> QED
      BY <3>2, <3>3
  <2> QED
    BY <2>2, <2>3
<1>2. \/ UNCHANGED mem
      \/ \E w \in Workers : BusStore(w)
  <2>1. Quiet => UNCHANGED mem \/ \E w \in Workers : BusStore(w)
    BY DEF Quiet, NotifyQueue, Retire, EvStep, EvCheck, EvBlock, EvDispatch, BeginTask, EndDelay,
           BusLoad, LoadPending, FreeWorker
  <2> QED
    BY <2>1, FirmwareCases, PlainEffect DEF StoreBits, StorePending, MaskPending, Emit, ClearPending,
                                            allVars, vars
<1>3. CASE UNCHANGED mem
  BY <1>3
<1> QED
  BY <1>1, <1>2, <1>3

LEMMA CopiesStep == DataInv /\ [FNext]_allVars => Copies'
<1> SUFFICES ASSUME DataInv, [FNext]_allVars PROVE Copies'
  OBVIOUS
<1> USE DEF DataInv, FInv, IInv
<1>1. mem'[Src] = mem[Src] /\ \A v \in Vals : mem[v] = mem[Src] => mem'[v] = mem'[Src]
  BY MemStep
<1>2. ASSUME NEW w \in Workers, stage'[w] \in {"store", "settle", "modify"}
      PROVE  stage[w] \in Busy /\ EventOf(w)' = EventOf(w)
  <2>0. /\ stage \in [Workers -> Stages]
    BY DEF TypeOK
  <2>1. CASE stage'[w] = stage[w]
    BY <1>2, <2>1, EventKept DEF Busy
  <2>2. ASSUME NEW v \in Workers,
               EndDelay(v) \/ BusLoad(v) \/ BusStore(v) \/ LoadPending(v) \/ ClearPending(v)
        PROVE  stage[w] \in Busy
    BY <1>2, <2>0, <2>2 DEF EndDelay, BusLoad, BusStore, LoadPending, ClearPending, Busy
  <2>3. ASSUME NEW v \in Workers, BeginTask(v) \/ FreeWorker(v) PROVE stage'[w] = stage[w]
    BY <1>2, <2>0, <2>3 DEF BeginTask, FreeWorker
  <2>4. NotifyQueue \/ Retire \/ EvStep => stage' = stage
    BY DEF NotifyQueue, Retire, EvStep, EvCheck, EvBlock, EvDispatch, workerVars
  <2>5. stage[w] \in Busy \/ stage'[w] = stage[w]
    BY <2>2, <2>3, <2>4, FirmwareCases, PlainFacts, StoreBitsFacts, MaskFacts, EmitFacts
       DEF Quiet, allVars, vars, workerVars
  <2> QED
    BY <2>1, <2>5, EventKept
<1>3. ASSUME NEW w \in Workers, stage'[w] = "store", EventOf(w).dst \in Vals
      PROVE  data'[w] = mem'[Src]
  <2>0. stage \in [Workers -> Stages] /\ data \in [Workers -> Data]
    BY DEF TypeOK
  <2>1. CASE stage[w] = "store" /\ data'[w] = data[w]
    BY <1>1, <1>2, <1>3, <2>1 DEF Copies, Busy
  <2>2. CASE BusLoad(w)
    <3>1. stage[w] \in Busy
      BY <1>2, <1>3
    <3>2. EventOf(w).src = Src
      BY <1>3, <3>1, BusyIsWhole DEF Whole
    <3>3. data'[w] = mem[Src] /\ UNCHANGED mem
      BY <2>0, <2>2, <3>2, ValFacts DEF BusLoad
    <3> QED
      BY <3>3
  <2>3. ASSUME NEW v \in Workers, BusLoad(v), v # w PROVE stage[w] = "store" /\ data'[w] = data[w]
    BY <1>3, <2>0, <2>3 DEF BusLoad
  <2>4. ASSUME NEW v \in Workers, EndDelay(v) \/ BusStore(v) \/ LoadPending(v) \/ ClearPending(v)
                                    \/ BeginTask(v) \/ FreeWorker(v)
        PROVE  stage[w] = "store" /\ data'[w] = data[w]
    BY <1>3, <2>0, <2>4 DEF EndDelay, BusStore, LoadPending, ClearPending, BeginTask, FreeWorker
  <2>5. NotifyQueue \/ Retire \/ EvStep => stage' = stage /\ data' = data
    BY DEF NotifyQueue, Retire, EvStep, EvCheck, EvBlock, EvDispatch, workerVars
  <2>6. Plain \/ (\E c \in Apps : StoreBits(c)) \/ MaskPending \/ Emit => stage' = stage /\ data' = data
    BY PlainEffect DEF StoreBits, StorePending, MaskPending, Emit, workerVars
  <2>7. BusLoad(w) \/ (stage[w] = "store" /\ data'[w] = data[w])
    BY <1>3, <2>3, <2>4, <2>5, <2>6, FirmwareCases DEF Quiet, allVars, vars, workerVars
  <2> QED
    BY <2>1, <2>2, <2>7
<1>4. ASSUME NEW w \in Workers, stage'[w] \in {"settle", "modify"}, EventOf(w).dst \in Vals
      PROVE  mem'[EventOf(w).dst] = mem'[Src]
  <2>0. stage \in [Workers -> Stages]
    BY DEF TypeOK
  <2>1. CASE stage[w] \in {"settle", "modify"}
    BY <1>1, <1>4, <2>1 DEF Copies, Busy
  <2>2. CASE BusStore(w)
    <3>1. stage[w] = "store" /\ data[w] = mem[Src] /\ EventOf(w).dst \in Mapped
      BY <1>4, <2>2, ValFacts DEF BusStore, Copies, Busy, Vals
    <3>2. mem' = [mem EXCEPT ![EventOf(w).dst] = data[w]]
      BY <2>2, <3>1 DEF BusStore
    <3> QED
      BY <1>1, <3>1, <3>2 DEF TypeOK
  <2>3. ASSUME NEW v \in Workers, BusStore(v), v # w PROVE stage[w] = stage'[w]
    BY <2>0, <2>3 DEF BusStore
  <2>4. ASSUME NEW v \in Workers, EndDelay(v) \/ BusLoad(v) \/ LoadPending(v) \/ ClearPending(v)
                                    \/ BeginTask(v) \/ FreeWorker(v)
        PROVE  stage[w] \in {"settle", "modify"}
    BY <1>4, <2>0, <2>4 DEF EndDelay, BusLoad, LoadPending, ClearPending, BeginTask, FreeWorker
  <2>5. NotifyQueue \/ Retire \/ EvStep => stage' = stage
    BY DEF NotifyQueue, Retire, EvStep, EvCheck, EvBlock, EvDispatch, workerVars
  <2>6. BusStore(w) \/ stage[w] \in {"settle", "modify"}
    BY <1>4, <2>3, <2>4, <2>5, FirmwareCases, PlainFacts, StoreBitsFacts, MaskFacts, EmitFacts
       DEF Quiet, allVars, vars, workerVars
  <2> QED
    BY <2>1, <2>2, <2>6
<1> HIDE DEF DataInv, FInv, IInv
<1> QED
  BY <1>2, <1>3, <1>4 DEF Copies

LEMMA OnItsWayStep == DataInv /\ [FNext]_allVars => OnItsWay'
<1> SUFFICES ASSUME DataInv, [FNext]_allVars PROVE OnItsWay'
  OBVIOUS
<1> USE DEF DataInv, FInv, IInv
<1>1. \A k : Restarted(k) => Restarted(k)'
  BY RestartedStays
<1>2. mem'[Src] = mem[Src] /\ \A v \in Vals : mem[v] = mem[Src] => mem'[v] = mem'[Src]
  BY MemStep
<1>3. ASSUME NEW c \in Apps, fpc'[c] \in Started, NEW k, k = freeChn'[c],
             ~Restarted(k)', mem'[Val[c]] # mem'[Src]
      PROVE  k \in Held' /\ descs'["rd"][k] = [src |-> Src, dst |-> Val[c]]
  <2>1. ~Restarted(k) /\ ~Got(c)
    BY <1>1, <1>2, <1>3, ValFacts DEF Got
  <2>2. ASSUME fpc[c] \in Started, k = freeChn[c]
        PROVE  k \in Held /\ descs["rd"][k] = [src |-> Src, dst |-> Val[c]]
    BY <2>1, <2>2 DEF OnItsWay
  <2>3. CASE Plain
    <3>1. fpc[c] \in Started /\ k = freeChn[c]
      BY <1>3, <2>3, PlainGoesOn
    <3>2. k \in Held' /\ k \in pend["rd"] /\ k \in Chn
      BY <2>2, <2>3, <3>1, PlainFacts DEF Held, Place
    <3>3. ASSUME NEW a \in Apps, SetSrc(a) \/ SetDst(a) PROVE descs'["rd"][k] = descs["rd"][k]
      <4>1. freeChn[a] # k
        BY <3>2, <3>3, SetFacts DEF BitsAgree
      <4> QED
        BY <3>2, <3>3, <4>1, SetFacts
    <3>4. descs'["rd"][k] = descs["rd"][k]
      BY <2>3, <3>3, DescsUntouched
    <3> QED
      BY <2>2, <3>1, <3>2, <3>4
  <2>4. ASSUME NEW a \in Apps, StoreBits(a)
        PROVE  k \in Held' /\ descs'["rd"][k] = [src |-> Src, dst |-> Val[c]]
    <3>1. /\ cpc = "ready" /\ cpc' = "mask" /\ cval' = loaded[a] \cup {freeChn[a]}
          /\ fpc[a] = "store_bits" /\ fpc' = [fpc EXCEPT ![a] = "assert"]
          /\ UNCHANGED <<descs, freeChn>>
      BY <2>4, StoreBitsFacts
    <3>2. CASE c = a
      BY <1>3, <3>1, <3>2 DEF Sources, Held
    <3>3. CASE c # a
      <4>1. fpc[c] \in Started /\ k = freeChn[c]
        BY <1>3, <3>1, <3>3, AppIsCtx DEF FTypes
      <4>2. Held \subseteq Held'
        BY <3>1 DEF BitsAgree, Held
      <4> QED
        BY <2>2, <3>1, <4>1, <4>2
    <3> QED
      BY <3>2, <3>3
  <2>5. ASSUME UNCHANGED fwVars
        PROVE  k \in Held /\ descs["rd"][k] = [src |-> Src, dst |-> Val[c]]
    BY <1>3, <2>2, <2>5 DEF fwVars
  <2>6. ASSUME UNCHANGED fwVars, MaskPending \/ Emit \/ Quiet \/ UNCHANGED allVars
        PROVE  Held' = Held /\ UNCHANGED descs
    <3>1. Emit => Held' = Held /\ UNCHANGED descs
      BY EmitFacts DEF Held
    <3> QED
      BY <2>6, <3>1, MaskFacts, QuietFacts DEF allVars, vars, regVars, cpuVars, Held
  <2>7. ASSUME UNCHANGED fwVars, NEW w \in Workers, ClearPending(w)
        PROVE  k \in Held' /\ UNCHANGED descs
    <3>1. stage[w] = "modify" /\ UNCHANGED descs
      BY <2>7, ClearFacts
    <3>2. lane[w] \in Live /\ EventOf(w) = emitted[lane[w]]
      BY <3>1, BusyIsLive DEF Busy
    <3>3. ASSUME EventOf(w).chnID = k PROVE FALSE
      <4>1. EventOf(w) = EventNow(k)
        BY <2>1, <3>2, <3>3 DEF OneLive
      <4>2. EventOf(w).dst = Val[c]
        BY <2>5, <2>7, <4>1 DEF EventNow
      <4> QED
        BY <2>1, <3>1, <4>2, ValFacts DEF Copies, Busy, Got
    <3> QED
      BY <2>5, <2>7, <3>1, <3>3, ClearHeld
  <2> QED
    BY <2>3, <2>4, <2>5, <2>6, <2>7, FirmwareCases DEF allVars
<1> HIDE DEF DataInv, FInv, IInv
<1> QED
  BY <1>3 DEF OnItsWay, Restarted, Got, Held

\* While the scheduler has the core, pending bits only fall.
LEMMA PendFalls ==
  ASSUME DataInv, [FNext]_allVars, currentCtx = 0
  PROVE  pend'["rd"] \subseteq pend["rd"]
<1> USE DEF DataInv, FInv, IInv
<1>1. cpc = "ready"
  BY AppIsCtx DEF Place
<1>2. ASSUME NEW w \in Workers, ClearPending(w) PROVE pend'["rd"] \subseteq pend["rd"]
  <2>1. pend'["rd"] = snap[w] \ {EventOf(w).chnID} /\ stage[w] = "modify"
    BY <1>2 DEF ClearPending, TypeOK, Kinds
  <2> QED
    BY <1>1, <2>1 DEF BitsAgree
<1>3. \A c \in Apps : ~StoreBits(c)
  BY AppIsCtx DEF StoreBits, At
<1>4. ~MaskPending /\ ~Emit
  BY <1>1 DEF MaskPending, Emit
<1> QED
  BY <1>2, <1>3, <1>4, FirmwareCases, PlainFacts, QuietFacts DEF allVars, vars, regVars

LEMMA WaitsStep == DataInv /\ [FNext]_allVars => Waits'
<1> SUFFICES ASSUME DataInv, [FNext]_allVars PROVE Waits'
  OBVIOUS
<1> USE AppIsCtx DEF DataInv, FInv, IInv, Goto, At, Waits, Choosing, Started
<1>0. fpc \in [Ctx -> Labels] /\ waiting \in [Kinds -> [Ctx -> SUBSET Chn]] /\ currentCtx \in Ctx
      /\ "rd" \in Kinds /\ freeChn \in [Ctx -> 0 .. NChn]
  BY DEF FTypes, Kinds
<1>1. currentCtx = 0 => pend'["rd"] \subseteq pend["rd"]
  BY PendFalls
<1>2. CASE StartScheduler
  BY <1>0, <1>2 DEF StartScheduler
<1>3. ASSUME NEW k \in Kinds, NEW next \in {"check_wr", "switch"}, CheckPending(k, next),
             k = "rd" => next = "check_wr", k = "wr" => next = "switch"
      PROVE  Waits'
  <2>1. /\ currentCtx = 0 /\ currentCtx' = 0 /\ waiting' = waiting /\ chkCtx' = chkCtx
        /\ freeChn' = freeChn /\ pend' = pend
        /\ fpc' = [fpc EXCEPT ![0] = IF waiting[k][chkCtx] \cap pend[k] = {} THEN next ELSE "advance"]
        /\ fpc[0] = IF k = "rd" THEN "check_rd" ELSE "check_wr"
    BY <1>3 DEF CheckPending, OtherInstr, regVars
  <2>2. \A c \in Apps : fpc'[c] = fpc[c]
    BY <1>0, <2>1
  <2>3. fpc'[0] \in {"check_wr", "switch", "advance"}
    BY <1>0, <2>1
  <2>4. fpc'[0] \in {"check_wr", "switch"} => waiting["rd"][chkCtx] \cap pend["rd"] = {}
    BY <1>0, <1>3, <2>1 DEF Kinds
  <2> QED
    BY <2>1, <2>2, <2>3, <2>4
<1>4. CASE SwitchToApp \/ AdvanceChk
  BY <1>0, <1>1, <1>4 DEF SwitchToApp, AdvanceChk
<1>5. ASSUME NEW c \in Apps, FindChannel(c) \/ SetSrc(c) \/ SetDst(c) \/ LoadBits(c) \/ StoreBits(c)
      PROVE  Waits'
  <2>1. /\ fpc[0] = "advance" /\ fpc'[0] = "advance" /\ waiting' = waiting
        /\ \A a \in Apps : a # c => fpc'[a] = fpc[a] /\ freeChn'[a] = freeChn[a]
        /\ fpc[c] = "find" => fpc'[c] \in {"find", "append"}
        /\ fpc[c] # "find" => freeChn' = freeChn /\ fpc[c] \in Choosing \ {"append"}
    BY <1>0, <1>5 DEF FindChannel, SetSrc, SetDst, LoadBits, StoreBits
  <2> QED
    BY <2>1
<1>6. ASSUME NEW c \in Apps, AppendWaiting(c) PROVE Waits'
  <2>1. /\ fpc[0] = "advance" /\ fpc'[0] = "advance" /\ freeChn' = freeChn
        /\ \A a \in Apps : a # c => fpc'[a] = fpc[a] /\ waiting'["rd"][a] = waiting["rd"][a]
        /\ freeChn[c] \in waiting'["rd"][c]
    BY <1>0, <1>6 DEF AppendWaiting
  <2> QED
    BY <2>1
<1>7. ASSUME NEW c \in Apps, AssertPending(c) \/ PrintSuccess(c) \/ SpinForever(c)
      PROVE  Waits'
  <2>1. /\ fpc[0] = "advance" /\ fpc'[0] = "advance" /\ freeChn' = freeChn /\ waiting' = waiting
        /\ \A a \in Apps : a # c => fpc'[a] = fpc[a]
        /\ fpc[c] \in Started
    BY <1>0, <1>7 DEF AssertPending, PrintSuccess, SpinForever, fwVars
  <2> QED
    BY <2>1
<1>8. ASSUME NEW c \in Apps, Yield(c, "wait", "resumed") \/ Yield(c, "yield", "main_loop")
      PROVE  Waits'
  <2>1. /\ fpc[0] = "advance" /\ fpc'[0] = "advance" /\ freeChn' = freeChn /\ waiting' = waiting
        /\ \A a \in Apps : a # c => fpc'[a] = fpc[a]
        /\ fpc[c] \in Started
    BY <1>0, <1>8 DEF Yield
  <2> QED
    BY <2>1
<1>9. CASE UNCHANGED fwVars
  <2>1. fpc'[0] \in {"check_wr", "switch"} => currentCtx = 0
    BY <1>9 DEF fwVars
  <2> QED
    BY <1>1, <1>9, <2>1 DEF fwVars
<1> QED
  BY <1>2, <1>3, <1>4, <1>5, <1>6, <1>7, <1>8, <1>9 DEF FNext, CtxStep, allVars, Kinds

LEMMA ReadStep == DataInv /\ [FNext]_allVars => ReadSuccess'
<1> SUFFICES ASSUME DataInv, [FNext]_allVars PROVE ReadSuccess'
  OBVIOUS
<1> USE DEF DataInv, FInv, IInv
<1>1. \A k : Restarted(k) => Restarted(k)'
  BY RestartedStays
<1>2. mem'[Src] = mem[Src] /\ \A v \in Vals : mem[v] = mem[Src] => mem'[v] = mem'[Src]
  BY MemStep
<1>3. ASSUME NEW c \in Apps, fpc'[c] \in {"resumed", "yield"}, currentCtx' = c, NEW k,
             k = freeChn'[c], ~Restarted(k)', mem'[Val[c]] # mem'[Src]
      PROVE  FALSE
  <2>1. ~Restarted(k) /\ ~Got(c)
    BY <1>1, <1>2, <1>3, ValFacts DEF Got
  <2>2. ASSUME currentCtx = c, fpc[c] \in {"resumed", "yield"}, k = freeChn[c] PROVE FALSE
    BY <2>1, <2>2 DEF ReadSuccess, Got
  <2>3. CASE SwitchToApp
    <3>1. /\ currentCtx = 0 /\ fpc[0] = "switch" /\ c = chkCtx /\ k = freeChn[c]
          /\ fpc[c] \in Started
      BY <1>3, <2>3, AppIsCtx DEF SwitchToApp, At, Goto, FTypes, Started
    <3>2. k \notin pend["rd"] /\ Held = pend["rd"]
      BY <2>3, <3>1 DEF Waits, Held, SwitchToApp, OtherInstr
    <3> QED
      BY <2>1, <3>1, <3>2 DEF OnItsWay
  <2>4. ASSUME StartScheduler \/ AdvanceChk
               \/ (\E x \in Kinds, next \in {"check_wr", "switch"} : CheckPending(x, next))
        PROVE  FALSE
    BY <1>3, <2>4, AppIsCtx DEF StartScheduler, AdvanceChk, CheckPending, At
  <2>5. ASSUME NEW a \in Apps,
               FindChannel(a) \/ AppendWaiting(a) \/ SetSrc(a) \/ SetDst(a) \/ LoadBits(a)
               \/ StoreBits(a) \/ AssertPending(a) \/ SpinForever(a)
        PROVE  FALSE
    <3>1. /\ currentCtx = a /\ currentCtx' = a /\ fpc[a] \notin {"resumed", "yield"}
          /\ fpc'[a] \notin {"resumed", "yield"}
      BY <2>5, AppIsCtx
         DEF FindChannel, AppendWaiting, SetSrc, SetDst, LoadBits, StoreBits, AssertPending,
             SpinForever, fwVars, At, Goto, FTypes
    <3> QED
      BY <1>3, <3>1
  <2>6. ASSUME NEW a \in Apps, PrintSuccess(a) PROVE FALSE
    <3>1. currentCtx = a /\ currentCtx' = a /\ fpc[a] = "resumed" /\ freeChn' = freeChn
      BY <2>6 DEF PrintSuccess, At
    <3> QED
      BY <1>3, <2>2, <3>1
  <2>7. ASSUME NEW a \in Apps, NEW from, NEW to, Yield(a, from, to) PROVE FALSE
    BY <1>3, <2>7, AppIsCtx DEF Yield
  <2>8. CASE UNCHANGED fwVars
    BY <1>3, <2>2, <2>8 DEF fwVars
  <2> QED
    BY <2>3, <2>4, <2>5, <2>6, <2>7, <2>8, FirmwareCases DEF Plain, allVars
<1> HIDE DEF DataInv, FInv, IInv
<1> QED
  BY <1>3 DEF ReadSuccess, Restarted

LEMMA DataInit == DescsAway /\ FInit => DataInv
<1> SUFFICES ASSUME DescsAway, FInit PROVE DataInv
  OBVIOUS
<1> USE AppIsCtx
<1>1. FInv
  BY FInitInv
<1>2. /\ currentCtx = 0 /\ fpc[0] = "start" /\ \A c \in Apps : fpc[c] = "find"
      /\ emitted = <<>> /\ stage = [w \in Workers |-> "idle"]
  BY DEF FInit, Init, Apps, Ctx
<1>3. \A k \in Chn : Whole(descs["rd"][k])
  BY DEF FInit, Init, DescsAway, Whole, Kinds
<1>4. Sources /\ Copies /\ OnItsWay /\ Waits /\ ReadSuccess
  BY <1>2, <1>3 DEF Sources, Copies, OnItsWay, Waits, ReadSuccess, Busy, Started, Choosing
<1> QED
  BY <1>1, <1>4 DEF DataInv

LEMMA DataStep == DataInv /\ [FNext]_allVars => DataInv'
<1>1. DataInv => FInv
  BY DEF DataInv
<1> QED
  BY <1>1, FInvStep, SourcesStep, CopiesStep, OnItsWayStep, WaitsStep, ReadStep DEF DataInv

\* "app_main: async read success!" (main.c:176): whatever the order in which the pool
\* carries transfers out and the scheduler looks, an application it resumes has its
\* data, or has shared its channel with a transfer that was started twice.
THEOREM ReadsSucceed == ASSUME DescsAway PROVE FSpec => []ReadSuccess
<1>1. DataInv => ReadSuccess
  BY DEF DataInv
<1>2. FInit => DataInv
  BY DataInit
<1> QED
  BY <1>1, <1>2, DataStep, PTL DEF FSpec
=============================================================================
