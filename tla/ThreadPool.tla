----------------------------- MODULE ThreadPool -----------------------------
(***************************************************************************)
(* Base_ns::ThreadPool (include/sdk/base/ThreadPool.h), the pool the       *)
(* MiniCPU memory controller runs its transfers on.                        *)
(*                                                                         *)
(* A step is one access to shared memory: one try_lock, one store to an    *)
(* atomic flag, one notify, one evaluation of the wait predicate.  A       *)
(* worker's runMutex is locked by that worker only (neither runTask nor    *)
(* ~Worker takes it), so it excludes nobody and has no variable; that the  *)
(* notifier does not take it is what the separate steps WorkerCheck and    *)
(* WorkerBlock are for.  ownershipMutex is locked by a submitter and       *)
(* unlocked by the worker; it is modelled as the binary semaphore a plain  *)
(* pthread mutex behaves like.                                             *)
(***************************************************************************)
EXTENDS Naturals

CONSTANTS N,         \* pool_size
          Callers,   \* the threads that call asyncRunTask
          Tasks,     \* the tasks, each submitted once
          NoTask, NoCaller

ASSUME PoolAssumption == /\ N \in Nat \ {0}
                         /\ NoTask \notin Tasks
                         /\ NoCaller \notin Callers

Workers == 0 .. N - 1

VARIABLES
    poolMutex,   \* the caller inside asyncRunTask, or NoCaller
    cpc,         \* cpc[c]: where in asyncRunTask caller c is
    job,         \* job[c]: the task c is submitting
    scan,        \* scan[c]: worker_idx % pool_size of c's loop
    owned,       \* owned[w]: ownershipMutex of worker w is locked
    start,       \* the atomic flag start of worker w
    exit,        \* the atomic flag exit of worker w
    slot,        \* slot[w]: the member task of worker w
    wpc,         \* wpc[w]: where in its thread function worker w is
    dtor,        \* where in ~ThreadPool the owner of the pool is
    victim,      \* the worker ~ThreadPool is destroying
    submitted,   \* the tasks given to asyncRunTask so far
    ran          \* ran[t]: how often task t has been run to its end

callerVars == <<poolMutex, cpc, job, scan, submitted>>
flagVars == <<owned, start, exit, slot>>
dtorVars == <<dtor, victim>>
vars == <<callerVars, flagVars, wpc, dtorVars, ran>>

CallerStates == {"idle", "scan", "fill", "raise", "notify", "unlock"}
WorkerStates == {"check", "block", "waiting", "task", "lower", "release", "exited"}
DtorStates == {"alive", "exit", "notify", "join", "gone"}

Init == /\ poolMutex = NoCaller
        /\ cpc = [c \in Callers |-> "idle"]
        /\ job = [c \in Callers |-> NoTask]
        /\ scan = [c \in Callers |-> 0]
        /\ owned = [w \in Workers |-> FALSE]
        /\ start = [w \in Workers |-> FALSE]
        /\ exit = [w \in Workers |-> FALSE]
        /\ slot = [w \in Workers |-> NoTask]
        /\ wpc = [w \in Workers |-> "check"]
        /\ dtor = "alive"
        /\ victim = 0
        /\ submitted = {}
        /\ ran = [t \in Tasks |-> 0]

-----------------------------------------------------------------------------
(* asyncRunTask *)

\* lock_guard on poolMutex; worker_idx starts from 0.  Calling a pool that is
\* being destroyed is not a call the program may make.
Submit(c, t) == /\ dtor = "alive"
                /\ poolMutex = NoCaller
                /\ cpc[c] = "idle"
                /\ t \notin submitted
                /\ poolMutex' = c
                /\ cpc' = [cpc EXCEPT ![c] = "scan"]
                /\ job' = [job EXCEPT ![c] = t]
                /\ scan' = [scan EXCEPT ![c] = 0]
                /\ submitted' = submitted \cup {t}
                /\ UNCHANGED <<flagVars, wpc, dtorVars, ran>>

\* (mutants of TryAcquire and SpinOn: no try_lock; no wrap at the last worker)
AcquireBusy(c) == /\ cpc[c] = "scan"
                  /\ owned' = [owned EXCEPT ![scan[c]] = TRUE]
                  /\ cpc' = [cpc EXCEPT ![c] = "fill"]
                  /\ UNCHANGED <<poolMutex, job, scan, submitted, start, exit, slot,
                                 wpc, dtorVars, ran>>

SpinPastEnd(c) == /\ cpc[c] = "scan"
                  /\ owned[scan[c]]
                  /\ scan' = [scan EXCEPT ![c] = @ + 1]
                  /\ UNCHANGED <<poolMutex, cpc, job, submitted, flagVars, wpc, dtorVars, ran>>

\* tryAcquire of the worker the loop stands at: it succeeds ...
TryAcquire(c) == /\ cpc[c] = "scan"
                 /\ ~owned[scan[c]]
                 /\ owned' = [owned EXCEPT ![scan[c]] = TRUE]
                 /\ cpc' = [cpc EXCEPT ![c] = "fill"]
                 /\ UNCHANGED <<poolMutex, job, scan, submitted, start, exit, slot,
                                wpc, dtorVars, ran>>

\* ... or the loop goes on with the next worker, round and round.
SpinOn(c) == /\ cpc[c] = "scan"
             /\ owned[scan[c]]
             /\ scan' = [scan EXCEPT ![c] = (@ + 1) % N]
             /\ UNCHANGED <<poolMutex, cpc, job, submitted, flagVars, wpc, dtorVars, ran>>

\* runTask: this->task = tsk; assert(start == false)
FillSlot(c) == /\ cpc[c] = "fill"
               /\ slot' = [slot EXCEPT ![scan[c]] = job[c]]
               /\ cpc' = [cpc EXCEPT ![c] = "raise"]
               /\ UNCHANGED <<poolMutex, job, scan, submitted, owned, start, exit,
                              wpc, dtorVars, ran>>

\* runTask: start.store(true)
RaiseStart(c) == /\ cpc[c] = "raise"
                 /\ start' = [start EXCEPT ![scan[c]] = TRUE]
                 /\ cpc' = [cpc EXCEPT ![c] = "notify"]
                 /\ UNCHANGED <<poolMutex, job, scan, submitted, owned, exit, slot,
                                wpc, dtorVars, ran>>

\* A notification reaches a worker that is blocked in wait, and is lost on one
\* that has evaluated the predicate and has not blocked yet.
Wake(w) == wpc' = IF wpc[w] = "waiting" THEN [wpc EXCEPT ![w] = "check"] ELSE wpc

\* runTask: runCond.notify_one(), without runMutex
NotifyOne(c) == /\ cpc[c] = "notify"
                /\ Wake(scan[c])
                /\ cpc' = [cpc EXCEPT ![c] = "unlock"]
                /\ UNCHANGED <<poolMutex, job, scan, submitted, flagVars, dtorVars, ran>>

Return(c) == /\ cpc[c] = "unlock"
             /\ poolMutex' = NoCaller
             /\ cpc' = [cpc EXCEPT ![c] = "idle"]
             /\ job' = [job EXCEPT ![c] = NoTask]
             /\ UNCHANGED <<scan, submitted, flagVars, wpc, dtorVars, ran>>

-----------------------------------------------------------------------------
(* The thread function of a worker *)

\* (mutant of WorkerCheck: the flag is lowered before the task is run)
CheckAndLower(w) == /\ wpc[w] = "check"
                    /\ wpc' = [wpc EXCEPT ![w] = IF exit[w] THEN "exited"
                                                 ELSE IF start[w] THEN "task"
                                                 ELSE "block"]
                    /\ start' = [start EXCEPT ![w] = FALSE]
                    /\ UNCHANGED <<callerVars, owned, exit, slot, dtorVars, ran>>

\* The wait predicate and the test of exit behind it: an exit that is seen
\* ends the thread, also when start is set; start runs the task.
WorkerCheck(w) == /\ wpc[w] = "check"
                  /\ wpc' = [wpc EXCEPT ![w] = IF exit[w] THEN "exited"
                                               ELSE IF start[w] THEN "task"
                                               ELSE "block"]
                  /\ UNCHANGED <<callerVars, flagVars, dtorVars, ran>>

\* The worker blocks on runCond with the predicate it evaluated before.
WorkerBlock(w) == /\ wpc[w] = "block"
                  /\ wpc' = [wpc EXCEPT ![w] = "waiting"]
                  /\ UNCHANGED <<callerVars, flagVars, dtorVars, ran>>

\* condition_variable::wait may return without a notification.
SpuriousWake(w) == /\ wpc[w] = "waiting"
                   /\ wpc' = [wpc EXCEPT ![w] = "check"]
                   /\ UNCHANGED <<callerVars, flagVars, dtorVars, ran>>

\* task(): whatever the member holds when it is called.
RunTask(w) == /\ wpc[w] = "task"
              /\ ran' = [ran EXCEPT ![slot[w]] = @ + 1]
              /\ wpc' = [wpc EXCEPT ![w] = "lower"]
              /\ UNCHANGED <<callerVars, flagVars, dtorVars>>

\* (mutants of LowerStart and Release: the flag, or the ownership, is kept)
KeepStart(w) == /\ wpc[w] = "lower"
                /\ wpc' = [wpc EXCEPT ![w] = "release"]
                /\ UNCHANGED <<callerVars, flagVars, dtorVars, ran>>

KeepOwnership(w) == /\ wpc[w] = "release"
                    /\ wpc' = [wpc EXCEPT ![w] = "check"]
                    /\ UNCHANGED <<callerVars, flagVars, dtorVars, ran>>

\* start.store(false)
LowerStart(w) == /\ wpc[w] = "lower"
                 /\ start' = [start EXCEPT ![w] = FALSE]
                 /\ wpc' = [wpc EXCEPT ![w] = "release"]
                 /\ UNCHANGED <<callerVars, owned, exit, slot, dtorVars, ran>>

\* ownershipMutex.unlock()
Release(w) == /\ wpc[w] = "release"
              /\ owned' = [owned EXCEPT ![w] = FALSE]
              /\ wpc' = [wpc EXCEPT ![w] = "check"]
              /\ UNCHANGED <<callerVars, start, exit, slot, dtorVars, ran>>

-----------------------------------------------------------------------------
(* ~ThreadPool: the workers' shared pointers are dropped one after the other *)

Destroy == /\ dtor = "alive"
           /\ \A c \in Callers : cpc[c] = "idle"
           /\ dtor' = "exit"
           /\ UNCHANGED <<callerVars, flagVars, wpc, victim, ran>>

\* ~Worker: exit.store(true), without runMutex
RaiseExit == /\ dtor = "exit"
             /\ exit' = [exit EXCEPT ![victim] = TRUE]
             /\ dtor' = "notify"
             /\ UNCHANGED <<callerVars, owned, start, slot, wpc, victim, ran>>

NotifyExit == /\ dtor = "notify"
              /\ Wake(victim)
              /\ dtor' = "join"
              /\ UNCHANGED <<callerVars, flagVars, victim, ran>>

Join == /\ dtor = "join"
        /\ wpc[victim] = "exited"
        /\ IF victim = N - 1
           THEN dtor' = "gone" /\ UNCHANGED victim
           ELSE dtor' = "exit" /\ victim' = victim + 1
        /\ UNCHANGED <<callerVars, flagVars, wpc, ran>>

-----------------------------------------------------------------------------
CallerStep(c) == \/ TryAcquire(c) \/ SpinOn(c) \/ FillSlot(c)
                 \/ RaiseStart(c) \/ NotifyOne(c) \/ Return(c)

WorkerStep(w) == \/ WorkerCheck(w) \/ WorkerBlock(w) \/ RunTask(w)
                 \/ LowerStart(w) \/ Release(w)

DtorStep == RaiseExit \/ NotifyExit \/ Join

Next == \/ \E c \in Callers : (\E t \in Tasks : Submit(c, t)) \/ CallerStep(c)
        \/ \E w \in Workers : WorkerStep(w) \/ SpuriousWake(w)
        \/ Destroy
        \/ DtorStep

Spec == Init /\ [][Next]_vars

\* The operating system runs every thread that can take a step.  Nothing makes
\* a submitter submit, the owner destroy the pool, or a wait return by itself.
FairSpec == /\ Spec
            /\ \A c \in Callers : WF_vars(CallerStep(c))
            /\ \A w \in Workers : WF_vars(WorkerStep(w))
            /\ WF_vars(DtorStep)

-----------------------------------------------------------------------------
TypeOK == /\ poolMutex \in Callers \cup {NoCaller}
          /\ cpc \in [Callers -> CallerStates]
          /\ job \in [Callers -> Tasks \cup {NoTask}]
          /\ scan \in [Callers -> Workers]
          /\ owned \in [Workers -> BOOLEAN]
          /\ start \in [Workers -> BOOLEAN]
          /\ exit \in [Workers -> BOOLEAN]
          /\ slot \in [Workers -> Tasks \cup {NoTask}]
          /\ wpc \in [Workers -> WorkerStates]
          /\ dtor \in DtorStates
          /\ victim \in Workers
          /\ submitted \in SUBSET Tasks
          /\ ran \in [Tasks -> Nat]

\* The assertion of runTask (ThreadPool.h:48): whoever has just acquired a
\* worker finds its start flag down and its thread outside task(), so the
\* member task it overwrites is not the one the worker is executing.
AcquiredWorkerIsIdle ==
    \A c \in Callers :
        cpc[c] \in {"fill", "raise"} =>
            /\ ~start[scan[c]]
            /\ wpc[scan[c]] \notin {"task", "lower", "release"}

\* No task is ever run twice, whatever the order of flag, notification and
\* release, and across every reuse of a worker.
NoTaskRunsTwice == \A t \in Tasks : ran[t] <= 1

\* The pool is an implementation of TaskPool: a raised start flag is a lane
\* taken by the task in the slot.
laneBar == [w \in Workers |-> IF start[w] THEN slot[w] ELSE NoTask]

statusBar == [t \in Tasks |->
    IF ran[t] > 0 THEN "done"
    ELSE IF \E w \in Workers : start[w] /\ slot[w] = t /\ wpc[w] = "task" THEN "running"
    ELSE IF \E w \in Workers : start[w] /\ slot[w] = t THEN "accepted"
    ELSE "new"]

Pool == INSTANCE TaskPool WITH Lanes <- Workers, lane <- laneBar, status <- statusBar

\* Seen through its start flags and slots, ThreadPool does only what TaskPool
\* allows: one task per worker, accepted once, begun once, freed when done.
ImplementsTaskPool == Pool!PoolSpec

\* A worker that sleeps on a raised flag nobody is about to announce.
Overslept(w) == /\ wpc[w] = "waiting"
                /\ start[w] \/ exit[w]
                /\ \A c \in Callers : cpc[c] = "notify" => scan[c] # w
                /\ ~(dtor = "notify" /\ victim = w)

\* A submitted task is run, unless some worker sleeps through its notification
\* or the pool is destroyed: no other interleaving of submitters that spin for
\* a worker and workers that come back loses a task.
TasksRunUnlessOverslept ==
    \A t \in Tasks :
        t \in submitted ~> \/ ran[t] = 1
                           \/ dtor # "alive"
                           \/ \E w \in Workers : Overslept(w)

\* "Run task in thread" (ThreadPool.h:84): a submitted task is run, or the
\* pool it was given to is destroyed.
EveryTaskRuns == \A t \in Tasks : t \in submitted ~> (ran[t] = 1 \/ dtor # "alive")
=============================================================================
