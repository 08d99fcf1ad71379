-------------------------- MODULE ThreadPool_proofs --------------------------
(***************************************************************************)
(* What holds of ThreadPool for every pool size, every number of callers   *)
(* and every set of tasks: type correctness, the assertion of runTask, and *)
(* that no task runs twice.                                                *)
(*                                                                         *)
(* The two safety properties are not inductive.  The strengthening says    *)
(* who owns what: poolMutex is held exactly by the caller inside           *)
(* asyncRunTask; a worker's ownershipMutex is held from its acquisition to *)
(* its release, by the caller first and by the worker's run afterwards;    *)
(* and a task that has not run is in at most one place.                    *)
(***************************************************************************)
EXTENDS ThreadPool, TLAPS

\* poolMutex serialises the callers.
MutexInv == \A c \in Callers : cpc[c] # "idle" <=> poolMutex = c

\* The caller between tryAcquire and the store to start owns an idle worker.
AcquireInv ==
    \A c \in Callers :
        cpc[c] \in {"fill", "raise"} =>
            /\ owned[scan[c]] /\ ~start[scan[c]]
            /\ wpc[scan[c]] \notin {"task", "lower", "release"}

\* A raised flag means an owned worker with a task in its slot; a worker runs
\* and lowers only under a raised flag and releases only what it owns.
WorkerInv ==
    \A w \in Workers :
        /\ start[w] => owned[w] /\ slot[w] \in Tasks /\ wpc[w] # "release"
        /\ wpc[w] \in {"task", "lower"} => start[w]
        /\ wpc[w] = "release" => owned[w]

\* The task a caller holds, until it hands it over, and the task in the slot of
\* a raised worker, until it has been run.
CallerHolds(c, t) == cpc[c] \in {"scan", "fill", "raise"} /\ job[c] = t
WorkerHolds(w, t) == start[w] /\ wpc[w] # "lower" /\ slot[w] = t

\* A task that is held is submitted and has not run, and is held by one only;
\* a task nobody has submitted has not run.
TaskInv ==
    \A t \in Tasks :
        /\ ran[t] <= 1
        /\ t \notin submitted => ran[t] = 0
        /\ \A c \in Callers : CallerHolds(c, t) => t \in submitted /\ ran[t] = 0
        /\ \A w \in Workers : WorkerHolds(w, t) => t \in submitted /\ ran[t] = 0
        /\ \A c \in Callers, w \in Workers : ~(CallerHolds(c, t) /\ WorkerHolds(w, t))
        /\ \A v, w \in Workers : WorkerHolds(v, t) /\ WorkerHolds(w, t) => v = w

\* A caller past tryAcquire holds a real task.
JobInv == \A c \in Callers : cpc[c] \in {"scan", "fill", "raise"} => job[c] \in Tasks

\* The slot a caller has filled holds its job.
FilledInv == \A c \in Callers : cpc[c] = "raise" => slot[scan[c]] = job[c]

\* A worker about to lower its flag has run the task in its slot.
DoneInv == \A w \in Workers : wpc[w] = "lower" => slot[w] \in Tasks /\ ran[slot[w]] > 0

IInv == /\ TypeOK /\ MutexInv /\ AcquireInv /\ WorkerInv /\ TaskInv /\ JobInv /\ FilledInv
        /\ DoneInv

-----------------------------------------------------------------------------
(* Type correctness *)

LEMMA InitType == Init => TypeOK
  BY PoolAssumption DEF Init, TypeOK, Workers, CallerStates, WorkerStates, DtorStates

\* Every step keeps every variable in its type.
LEMMA NextType == TypeOK /\ [Next]_vars => TypeOK'
<1> SUFFICES ASSUME TypeOK, [Next]_vars PROVE TypeOK'
  OBVIOUS
<1> USE PoolAssumption DEF TypeOK, CallerStates, WorkerStates, DtorStates, callerVars, flagVars,
        dtorVars, Workers
<1>1. ASSUME NEW c \in Callers, NEW t \in Tasks, Submit(c, t) PROVE TypeOK'
  BY <1>1 DEF Submit
<1>2. ASSUME NEW c \in Callers, TryAcquire(c) PROVE TypeOK'
  BY <1>2 DEF TryAcquire
<1>3. ASSUME NEW c \in Callers, SpinOn(c) PROVE TypeOK'
  <2>1. (scan[c] + 1) % N \in 0 .. N - 1
    BY <1>3
  <2> QED
    BY <1>3, <2>1 DEF SpinOn
<1>4. ASSUME NEW c \in Callers, FillSlot(c) PROVE TypeOK'
  BY <1>4 DEF FillSlot
<1>5. ASSUME NEW c \in Callers, RaiseStart(c) PROVE TypeOK'
  BY <1>5 DEF RaiseStart
<1>6. ASSUME NEW c \in Callers, NotifyOne(c) PROVE TypeOK'
  BY <1>6 DEF NotifyOne, Wake
<1>7. ASSUME NEW c \in Callers, Return(c) PROVE TypeOK'
  BY <1>7 DEF Return
<1>8. ASSUME NEW w \in Workers, WorkerCheck(w) PROVE TypeOK'
  BY <1>8 DEF WorkerCheck
<1>9. ASSUME NEW w \in Workers, WorkerBlock(w) \/ SpuriousWake(w) PROVE TypeOK'
  BY <1>9 DEF WorkerBlock, SpuriousWake
<1>10. ASSUME NEW w \in Workers, RunTask(w) PROVE TypeOK'
  <2>1. ran' \in [Tasks -> Nat]
    <3>1. ASSUME NEW t \in Tasks PROVE ran'[t] \in Nat
      <4>1. CASE t = slot[w]
        BY <1>10, <4>1 DEF RunTask
      <4>2. CASE t # slot[w]
        BY <1>10, <4>2 DEF RunTask
      <4> QED
        BY <4>1, <4>2
    <3> QED
      BY <3>1, <1>10 DEF RunTask
  <2> QED
    BY <1>10, <2>1 DEF RunTask
<1>11. ASSUME NEW w \in Workers, LowerStart(w) PROVE TypeOK'
  BY <1>11 DEF LowerStart
<1>12. ASSUME NEW w \in Workers, Release(w) PROVE TypeOK'
  BY <1>12 DEF Release
<1>13. CASE Destroy
  BY <1>13 DEF Destroy
<1>14. CASE RaiseExit
  BY <1>14 DEF RaiseExit
<1>15. CASE NotifyExit
  BY <1>15 DEF NotifyExit, Wake
<1>16. CASE Join
  BY <1>16 DEF Join
<1>17. CASE UNCHANGED vars
  BY <1>17 DEF vars
<1> QED
  BY <1>1, <1>2, <1>3, <1>4, <1>5, <1>6, <1>7, <1>8, <1>9, <1>10, <1>11, <1>12, <1>13, <1>14,
     <1>15, <1>16, <1>17 DEF Next, CallerStep, WorkerStep, DtorStep

\* ThreadPool.h: every flag, mutex and program counter stays in its range.
THEOREM TypeCorrect == Spec => []TypeOK
  BY InitType, NextType, PTL DEF Spec

-----------------------------------------------------------------------------
(* The inductive invariant, conjunct by conjunct *)

LEMMA InitInv == Init => IInv
<1> SUFFICES ASSUME Init PROVE IInv
  OBVIOUS
<1>1. TypeOK
  BY InitType
<1> QED
  BY <1>1, PoolAssumption DEF Init, IInv, MutexInv, AcquireInv, WorkerInv, TaskInv, JobInv, FilledInv,
                             DoneInv, CallerHolds, WorkerHolds, Workers

\* Who is inside asyncRunTask holds poolMutex, and nobody else.
LEMMA NextMutex == IInv /\ [Next]_vars => MutexInv'
<1> SUFFICES ASSUME IInv, [Next]_vars PROVE MutexInv'
  OBVIOUS
<1> USE PoolAssumption DEF IInv, TypeOK, MutexInv, callerVars, flagVars, dtorVars, CallerStates, WorkerStates
<1>1. ASSUME NEW c \in Callers, NEW t \in Tasks, Submit(c, t) PROVE MutexInv'
  BY <1>1 DEF Submit
<1>2. ASSUME NEW c \in Callers, TryAcquire(c) PROVE MutexInv'
  BY <1>2 DEF TryAcquire
<1>3. ASSUME NEW c \in Callers, SpinOn(c) PROVE MutexInv'
  BY <1>3 DEF SpinOn
<1>4. ASSUME NEW c \in Callers, FillSlot(c) PROVE MutexInv'
  BY <1>4 DEF FillSlot
<1>5. ASSUME NEW c \in Callers, RaiseStart(c) PROVE MutexInv'
  BY <1>5 DEF RaiseStart
<1>6. ASSUME NEW c \in Callers, NotifyOne(c) PROVE MutexInv'
  BY <1>6 DEF NotifyOne, Wake
<1>7. ASSUME NEW c \in Callers, Return(c) PROVE MutexInv'
  BY <1>7 DEF Return
<1>8. ASSUME NEW w \in Workers, WorkerCheck(w) PROVE MutexInv'
  BY <1>8 DEF WorkerCheck
<1>9. ASSUME NEW w \in Workers, WorkerBlock(w) PROVE MutexInv'
  BY <1>9 DEF WorkerBlock
<1>10. ASSUME NEW w \in Workers, SpuriousWake(w) PROVE MutexInv'
  BY <1>10 DEF SpuriousWake
<1>11. ASSUME NEW w \in Workers, RunTask(w) PROVE MutexInv'
  BY <1>11 DEF RunTask
<1>12. ASSUME NEW w \in Workers, LowerStart(w) PROVE MutexInv'
  BY <1>12 DEF LowerStart
<1>13. ASSUME NEW w \in Workers, Release(w) PROVE MutexInv'
  BY <1>13 DEF Release
<1>14. CASE Destroy
  BY <1>14 DEF Destroy
<1>15. CASE RaiseExit
  BY <1>15 DEF RaiseExit
<1>16. CASE NotifyExit
  BY <1>16 DEF NotifyExit, Wake
<1>17. CASE Join
  BY <1>17 DEF Join
<1>18. CASE UNCHANGED vars
  BY <1>18 DEF vars
<1> QED
  BY <1>1, <1>2, <1>3, <1>4, <1>5, <1>6, <1>7, <1>8, <1>9, <1>10,
     <1>11, <1>12, <1>13, <1>14, <1>15, <1>16, <1>17, <1>18 DEF Next, CallerStep, WorkerStep, DtorStep

\* A caller carries a task from its call to the store to start.
LEMMA NextJob == IInv /\ [Next]_vars => JobInv'
<1> SUFFICES ASSUME IInv, [Next]_vars PROVE JobInv'
  OBVIOUS
<1> USE PoolAssumption DEF IInv, TypeOK, JobInv, callerVars, flagVars, dtorVars, CallerStates, WorkerStates
<1>1. ASSUME NEW c \in Callers, NEW t \in Tasks, Submit(c, t) PROVE JobInv'
  BY <1>1 DEF Submit
<1>2. ASSUME NEW c \in Callers, TryAcquire(c) PROVE JobInv'
  BY <1>2 DEF TryAcquire
<1>3. ASSUME NEW c \in Callers, SpinOn(c) PROVE JobInv'
  BY <1>3 DEF SpinOn
<1>4. ASSUME NEW c \in Callers, FillSlot(c) PROVE JobInv'
  BY <1>4 DEF FillSlot
<1>5. ASSUME NEW c \in Callers, RaiseStart(c) PROVE JobInv'
  BY <1>5 DEF RaiseStart
<1>6. ASSUME NEW c \in Callers, NotifyOne(c) PROVE JobInv'
  BY <1>6 DEF NotifyOne, Wake
<1>7. ASSUME NEW c \in Callers, Return(c) PROVE JobInv'
  BY <1>7 DEF Return
<1>8. ASSUME NEW w \in Workers, WorkerCheck(w) PROVE JobInv'
  BY <1>8 DEF WorkerCheck
<1>9. ASSUME NEW w \in Workers, WorkerBlock(w) PROVE JobInv'
  BY <1>9 DEF WorkerBlock
<1>10. ASSUME NEW w \in Workers, SpuriousWake(w) PROVE JobInv'
  BY <1>10 DEF SpuriousWake
<1>11. ASSUME NEW w \in Workers, RunTask(w) PROVE JobInv'
  BY <1>11 DEF RunTask
<1>12. ASSUME NEW w \in Workers, LowerStart(w) PROVE JobInv'
  BY <1>12 DEF LowerStart
<1>13. ASSUME NEW w \in Workers, Release(w) PROVE JobInv'
  BY <1>13 DEF Release
<1>14. CASE Destroy
  BY <1>14 DEF Destroy
<1>15. CASE RaiseExit
  BY <1>15 DEF RaiseExit
<1>16. CASE NotifyExit
  BY <1>16 DEF NotifyExit, Wake
<1>17. CASE Join
  BY <1>17 DEF Join
<1>18. CASE UNCHANGED vars
  BY <1>18 DEF vars
<1> QED
  BY <1>1, <1>2, <1>3, <1>4, <1>5, <1>6, <1>7, <1>8, <1>9, <1>10,
     <1>11, <1>12, <1>13, <1>14, <1>15, <1>16, <1>17, <1>18 DEF Next, CallerStep, WorkerStep, DtorStep

\* The worker a caller has acquired stays idle until start is stored.
LEMMA NextAcquire == IInv /\ [Next]_vars => AcquireInv'
<1> SUFFICES ASSUME IInv, [Next]_vars PROVE AcquireInv'
  OBVIOUS
<1> USE PoolAssumption DEF IInv, TypeOK, AcquireInv, MutexInv, WorkerInv, callerVars, flagVars, dtorVars, CallerStates, WorkerStates
<1>1. ASSUME NEW c \in Callers, NEW t \in Tasks, Submit(c, t) PROVE AcquireInv'
  BY <1>1 DEF Submit
<1>2. ASSUME NEW c \in Callers, TryAcquire(c) PROVE AcquireInv'
  BY <1>2 DEF TryAcquire
<1>3. ASSUME NEW c \in Callers, SpinOn(c) PROVE AcquireInv'
  BY <1>3 DEF SpinOn
<1>4. ASSUME NEW c \in Callers, FillSlot(c) PROVE AcquireInv'
  BY <1>4 DEF FillSlot
<1>5. ASSUME NEW c \in Callers, RaiseStart(c) PROVE AcquireInv'
  BY <1>5 DEF RaiseStart
<1>6. ASSUME NEW c \in Callers, NotifyOne(c) PROVE AcquireInv'
  BY <1>6 DEF NotifyOne, Wake
<1>7. ASSUME NEW c \in Callers, Return(c) PROVE AcquireInv'
  BY <1>7 DEF Return
<1>8. ASSUME NEW w \in Workers, WorkerCheck(w) PROVE AcquireInv'
  BY <1>8 DEF WorkerCheck
<1>9. ASSUME NEW w \in Workers, WorkerBlock(w) PROVE AcquireInv'
  BY <1>9 DEF WorkerBlock
<1>10. ASSUME NEW w \in Workers, SpuriousWake(w) PROVE AcquireInv'
  BY <1>10 DEF SpuriousWake
<1>11. ASSUME NEW w \in Workers, RunTask(w) PROVE AcquireInv'
  BY <1>11 DEF RunTask
<1>12. ASSUME NEW w \in Workers, LowerStart(w) PROVE AcquireInv'
  BY <1>12 DEF LowerStart
<1>13. ASSUME NEW w \in Workers, Release(w) PROVE AcquireInv'
  BY <1>13 DEF Release
<1>14. CASE Destroy
  BY <1>14 DEF Destroy
<1>15. CASE RaiseExit
  BY <1>15 DEF RaiseExit
<1>16. CASE NotifyExit
  BY <1>16 DEF NotifyExit, Wake
<1>17. CASE Join
  BY <1>17 DEF Join
<1>18. CASE UNCHANGED vars
  BY <1>18 DEF vars
<1> QED
  BY <1>1, <1>2, <1>3, <1>4, <1>5, <1>6, <1>7, <1>8, <1>9, <1>10,
     <1>11, <1>12, <1>13, <1>14, <1>15, <1>16, <1>17, <1>18 DEF Next, CallerStep, WorkerStep, DtorStep

\* Flag, ownership and program counter of a worker agree.
LEMMA NextWorker == IInv /\ [Next]_vars => WorkerInv'
<1> SUFFICES ASSUME IInv, [Next]_vars PROVE WorkerInv'
  OBVIOUS
<1> USE PoolAssumption DEF IInv, TypeOK, WorkerInv, AcquireInv, MutexInv, JobInv, FilledInv, callerVars, flagVars, dtorVars, CallerStates, WorkerStates
<1>1. ASSUME NEW c \in Callers, NEW t \in Tasks, Submit(c, t) PROVE WorkerInv'
  BY <1>1 DEF Submit
<1>2. ASSUME NEW c \in Callers, TryAcquire(c) PROVE WorkerInv'
  BY <1>2 DEF TryAcquire
<1>3. ASSUME NEW c \in Callers, SpinOn(c) PROVE WorkerInv'
  BY <1>3 DEF SpinOn
<1>4. ASSUME NEW c \in Callers, FillSlot(c) PROVE WorkerInv'
  BY <1>4 DEF FillSlot
<1>5. ASSUME NEW c \in Callers, RaiseStart(c) PROVE WorkerInv'
  BY <1>5 DEF RaiseStart
<1>6. ASSUME NEW c \in Callers, NotifyOne(c) PROVE WorkerInv'
  BY <1>6 DEF NotifyOne, Wake
<1>7. ASSUME NEW c \in Callers, Return(c) PROVE WorkerInv'
  BY <1>7 DEF Return
<1>8. ASSUME NEW w \in Workers, WorkerCheck(w) PROVE WorkerInv'
  BY <1>8 DEF WorkerCheck
<1>9. ASSUME NEW w \in Workers, WorkerBlock(w) PROVE WorkerInv'
  BY <1>9 DEF WorkerBlock
<1>10. ASSUME NEW w \in Workers, SpuriousWake(w) PROVE WorkerInv'
  BY <1>10 DEF SpuriousWake
<1>11. ASSUME NEW w \in Workers, RunTask(w) PROVE WorkerInv'
  BY <1>11 DEF RunTask
<1>12. ASSUME NEW w \in Workers, LowerStart(w) PROVE WorkerInv'
  BY <1>12 DEF LowerStart
<1>13. ASSUME NEW w \in Workers, Release(w) PROVE WorkerInv'
  BY <1>13 DEF Release
<1>14. CASE Destroy
  BY <1>14 DEF Destroy
<1>15. CASE RaiseExit
  BY <1>15 DEF RaiseExit
<1>16. CASE NotifyExit
  BY <1>16 DEF NotifyExit, Wake
<1>17. CASE Join
  BY <1>17 DEF Join
<1>18. CASE UNCHANGED vars
  BY <1>18 DEF vars
<1> QED
  BY <1>1, <1>2, <1>3, <1>4, <1>5, <1>6, <1>7, <1>8, <1>9, <1>10,
     <1>11, <1>12, <1>13, <1>14, <1>15, <1>16, <1>17, <1>18 DEF Next, CallerStep, WorkerStep, DtorStep

\* The slot keeps the job until start is stored.
LEMMA NextFilled == IInv /\ [Next]_vars => FilledInv'
<1> SUFFICES ASSUME IInv, [Next]_vars PROVE FilledInv'
  OBVIOUS
<1> USE PoolAssumption DEF IInv, TypeOK, FilledInv, MutexInv, callerVars, flagVars, dtorVars, CallerStates, WorkerStates
<1>1. ASSUME NEW c \in Callers, NEW t \in Tasks, Submit(c, t) PROVE FilledInv'
  BY <1>1 DEF Submit
<1>2. ASSUME NEW c \in Callers, TryAcquire(c) PROVE FilledInv'
  BY <1>2 DEF TryAcquire
<1>3. ASSUME NEW c \in Callers, SpinOn(c) PROVE FilledInv'
  BY <1>3 DEF SpinOn
<1>4. ASSUME NEW c \in Callers, FillSlot(c) PROVE FilledInv'
  BY <1>4 DEF FillSlot
<1>5. ASSUME NEW c \in Callers, RaiseStart(c) PROVE FilledInv'
  BY <1>5 DEF RaiseStart
<1>6. ASSUME NEW c \in Callers, NotifyOne(c) PROVE FilledInv'
  BY <1>6 DEF NotifyOne, Wake
<1>7. ASSUME NEW c \in Callers, Return(c) PROVE FilledInv'
  BY <1>7 DEF Return
<1>8. ASSUME NEW w \in Workers, WorkerCheck(w) PROVE FilledInv'
  BY <1>8 DEF WorkerCheck
<1>9. ASSUME NEW w \in Workers, WorkerBlock(w) PROVE FilledInv'
  BY <1>9 DEF WorkerBlock
<1>10. ASSUME NEW w \in Workers, SpuriousWake(w) PROVE FilledInv'
  BY <1>10 DEF SpuriousWake
<1>11. ASSUME NEW w \in Workers, RunTask(w) PROVE FilledInv'
  BY <1>11 DEF RunTask
<1>12. ASSUME NEW w \in Workers, LowerStart(w) PROVE FilledInv'
  BY <1>12 DEF LowerStart
<1>13. ASSUME NEW w \in Workers, Release(w) PROVE FilledInv'
  BY <1>13 DEF Release
<1>14. CASE Destroy
  BY <1>14 DEF Destroy
<1>15. CASE RaiseExit
  BY <1>15 DEF RaiseExit
<1>16. CASE NotifyExit
  BY <1>16 DEF NotifyExit, Wake
<1>17. CASE Join
  BY <1>17 DEF Join
<1>18. CASE UNCHANGED vars
  BY <1>18 DEF vars
<1> QED
  BY <1>1, <1>2, <1>3, <1>4, <1>5, <1>6, <1>7, <1>8, <1>9, <1>10,
     <1>11, <1>12, <1>13, <1>14, <1>15, <1>16, <1>17, <1>18 DEF Next, CallerStep, WorkerStep, DtorStep

\* The task of a worker about to lower its flag has been run.
LEMMA NextDone == IInv /\ [Next]_vars => DoneInv'
<1> SUFFICES ASSUME IInv, [Next]_vars PROVE DoneInv'
  OBVIOUS
<1> USE PoolAssumption DEF IInv, TypeOK, DoneInv, MutexInv, AcquireInv, WorkerInv, callerVars, flagVars, dtorVars, CallerStates, WorkerStates
<1>1. ASSUME NEW c \in Callers, NEW t \in Tasks, Submit(c, t) PROVE DoneInv'
  BY <1>1 DEF Submit
<1>2. ASSUME NEW c \in Callers, TryAcquire(c) PROVE DoneInv'
  BY <1>2 DEF TryAcquire
<1>3. ASSUME NEW c \in Callers, SpinOn(c) PROVE DoneInv'
  BY <1>3 DEF SpinOn
<1>4. ASSUME NEW c \in Callers, FillSlot(c) PROVE DoneInv'
  BY <1>4 DEF FillSlot
<1>5. ASSUME NEW c \in Callers, RaiseStart(c) PROVE DoneInv'
  BY <1>5 DEF RaiseStart
<1>6. ASSUME NEW c \in Callers, NotifyOne(c) PROVE DoneInv'
  BY <1>6 DEF NotifyOne, Wake
<1>7. ASSUME NEW c \in Callers, Return(c) PROVE DoneInv'
  BY <1>7 DEF Return
<1>8. ASSUME NEW w \in Workers, WorkerCheck(w) PROVE DoneInv'
  BY <1>8 DEF WorkerCheck
<1>9. ASSUME NEW w \in Workers, WorkerBlock(w) PROVE DoneInv'
  BY <1>9 DEF WorkerBlock
<1>10. ASSUME NEW w \in Workers, SpuriousWake(w) PROVE DoneInv'
  BY <1>10 DEF SpuriousWake
<1>11. ASSUME NEW w \in Workers, RunTask(w) PROVE DoneInv'
  BY <1>11 DEF RunTask
<1>12. ASSUME NEW w \in Workers, LowerStart(w) PROVE DoneInv'
  BY <1>12 DEF LowerStart
<1>13. ASSUME NEW w \in Workers, Release(w) PROVE DoneInv'
  BY <1>13 DEF Release
<1>14. CASE Destroy
  BY <1>14 DEF Destroy
<1>15. CASE RaiseExit
  BY <1>15 DEF RaiseExit
<1>16. CASE NotifyExit
  BY <1>16 DEF NotifyExit, Wake
<1>17. CASE Join
  BY <1>17 DEF Join
<1>18. CASE UNCHANGED vars
  BY <1>18 DEF vars
<1> QED
  BY <1>1, <1>2, <1>3, <1>4, <1>5, <1>6, <1>7, <1>8, <1>9, <1>10,
     <1>11, <1>12, <1>13, <1>14, <1>15, <1>16, <1>17, <1>18 DEF Next, CallerStep, WorkerStep, DtorStep

\* A task is in one place until it has run.
LEMMA NextTask == IInv /\ [Next]_vars => TaskInv'
<1> SUFFICES ASSUME IInv, [Next]_vars PROVE TaskInv'
  OBVIOUS
<1> USE PoolAssumption DEF IInv, TypeOK, TaskInv, CallerHolds, WorkerHolds, MutexInv, WorkerInv, AcquireInv, JobInv, FilledInv, callerVars, flagVars, dtorVars, CallerStates, WorkerStates
<1>1. ASSUME NEW c \in Callers, NEW t \in Tasks, Submit(c, t) PROVE TaskInv'
  BY <1>1 DEF Submit
<1>2. ASSUME NEW c \in Callers, TryAcquire(c) PROVE TaskInv'
  BY <1>2 DEF TryAcquire
<1>3. ASSUME NEW c \in Callers, SpinOn(c) PROVE TaskInv'
  BY <1>3 DEF SpinOn
<1>4. ASSUME NEW c \in Callers, FillSlot(c) PROVE TaskInv'
  BY <1>4 DEF FillSlot
<1>5. ASSUME NEW c \in Callers, RaiseStart(c) PROVE TaskInv'
  BY <1>5 DEF RaiseStart
<1>6. ASSUME NEW c \in Callers, NotifyOne(c) PROVE TaskInv'
  BY <1>6 DEF NotifyOne, Wake
<1>7. ASSUME NEW c \in Callers, Return(c) PROVE TaskInv'
  BY <1>7 DEF Return
<1>8. ASSUME NEW w \in Workers, WorkerCheck(w) PROVE TaskInv'
  BY <1>8 DEF WorkerCheck
<1>9. ASSUME NEW w \in Workers, WorkerBlock(w) PROVE TaskInv'
  BY <1>9 DEF WorkerBlock
<1>10. ASSUME NEW w \in Workers, SpuriousWake(w) PROVE TaskInv'
  BY <1>10 DEF SpuriousWake
<1>11. ASSUME NEW w \in Workers, RunTask(w) PROVE TaskInv'
  BY <1>11 DEF RunTask
<1>12. ASSUME NEW w \in Workers, LowerStart(w) PROVE TaskInv'
  BY <1>12 DEF LowerStart
<1>13. ASSUME NEW w \in Workers, Release(w) PROVE TaskInv'
  BY <1>13 DEF Release
<1>14. CASE Destroy
  BY <1>14 DEF Destroy
<1>15. CASE RaiseExit
  BY <1>15 DEF RaiseExit
<1>16. CASE NotifyExit
  BY <1>16 DEF NotifyExit, Wake
<1>17. CASE Join
  BY <1>17 DEF Join
<1>18. CASE UNCHANGED vars
  BY <1>18 DEF vars
<1> QED
  BY <1>1, <1>2, <1>3, <1>4, <1>5, <1>6, <1>7, <1>8, <1>9, <1>10,
     <1>11, <1>12, <1>13, <1>14, <1>15, <1>16, <1>17, <1>18 DEF Next, CallerStep, WorkerStep, DtorStep

-----------------------------------------------------------------------------
(* The safety properties *)

LEMMA Inductive == Spec => []IInv
<1>1. IInv /\ [Next]_vars => IInv'
  BY NextType, NextMutex, NextJob, NextAcquire, NextWorker, NextFilled, NextDone, NextTask DEF IInv
<1> QED
  BY <1>1, InitInv, PTL DEF Spec

\* The assertion of runTask (ThreadPool.h:48) never fails: an acquired worker
\* has its flag down and its thread outside task().
THEOREM AcquiredIsIdle == Spec => []AcquiredWorkerIsIdle
<1>1. IInv => AcquiredWorkerIsIdle
  BY DEF IInv, AcquireInv, AcquiredWorkerIsIdle
<1> QED
  BY <1>1, Inductive, PTL

\* asyncRunTask and the thread function together run no task twice.
THEOREM RunsOnce == Spec => []NoTaskRunsTwice
<1>1. IInv => NoTaskRunsTwice
  BY DEF IInv, TaskInv, NoTaskRunsTwice
<1> QED
  BY <1>1, Inductive, PTL

-----------------------------------------------------------------------------
(* Refinement of TaskPool *)

LEMMA InitRefines == Init => Pool!PoolInit
  BY PoolAssumption DEF Init, Pool!PoolInit, laneBar, statusBar, Workers

\* What a started worker means for the status of its task.
LEMMA StatusOf ==
  ASSUME IInv, NEW w \in Workers, start[w]
  PROVE  /\ slot[w] \in Tasks /\ slot[w] # NoTask
         /\ statusBar[slot[w]] = IF wpc[w] = "lower" THEN "done"
                                 ELSE IF wpc[w] = "task" THEN "running" ELSE "accepted"
<1>1. slot[w] \in Tasks /\ slot[w] # NoTask
  BY PoolAssumption DEF IInv, WorkerInv
<1>2. CASE wpc[w] = "lower"
  BY <1>1, <1>2 DEF IInv, DoneInv, statusBar
<1>3. CASE wpc[w] # "lower"
  <2>1. ran[slot[w]] = 0
    BY <1>1, <1>3 DEF IInv, TaskInv, WorkerHolds
  <2>2. ASSUME NEW v \in Workers, start[v], slot[v] = slot[w] PROVE v = w
    <3>1. wpc[v] # "lower"
      BY <2>1, <2>2, <1>1 DEF IInv, DoneInv
    <3> QED
      BY <3>1, <2>2, <1>1, <1>3 DEF IInv, TaskInv, WorkerHolds
  <2> QED
    BY <1>1, <1>3, <2>1, <2>2 DEF statusBar
<1> QED
  BY <1>1, <1>2, <1>3

\* A step that changes no flag, no task count, no slot of a started worker and
\* no worker's being inside its task is invisible in the abstract pool.
LEMMA Invisible ==
  ASSUME TypeOK, start' = start, ran' = ran,
         \A w \in Workers : start[w] => slot'[w] = slot[w],
         \A w \in Workers : start[w] => (wpc'[w] = "task" <=> wpc[w] = "task")
  PROVE  UNCHANGED <<laneBar, statusBar>>
  BY DEF TypeOK, laneBar, statusBar

\* Every step of the pool is a step of TaskPool or changes nothing it shows.
LEMMA NextRefines == IInv /\ [Next]_vars => [Pool!PoolNext]_(Pool!poolVars)
<1> SUFFICES ASSUME IInv, [Next]_vars PROVE [Pool!PoolNext]_(Pool!poolVars)
  OBVIOUS
<1> USE DEF callerVars, flagVars, dtorVars
<1>0. TypeOK
  BY DEF IInv
<1>1. ASSUME NEW c \in Callers, NEW t \in Tasks, Submit(c, t)
      PROVE UNCHANGED <<laneBar, statusBar>>
  BY <1>0, <1>1, Invisible DEF Submit
<1>2. ASSUME NEW c \in Callers, TryAcquire(c) \/ SpinOn(c) \/ Return(c)
      PROVE UNCHANGED <<laneBar, statusBar>>
  BY <1>0, <1>2, Invisible DEF TryAcquire, SpinOn, Return
<1>3. ASSUME NEW c \in Callers, FillSlot(c) PROVE UNCHANGED <<laneBar, statusBar>>
  <2>1. ~start[scan[c]]
    BY <1>3 DEF IInv, AcquireInv, FillSlot
  <2> QED
    BY <1>0, <1>3, <2>1, Invisible DEF FillSlot, TypeOK
<1>4. ASSUME NEW c \in Callers, NotifyOne(c) PROVE UNCHANGED <<laneBar, statusBar>>
  BY <1>0, <1>4, Invisible DEF NotifyOne, Wake, TypeOK
<1>5. ASSUME NEW c \in Callers, RaiseStart(c) PROVE Pool!PoolNext
  <2> DEFINE w == scan[c]  t == job[c]
  <2>1. w \in Workers /\ t \in Tasks /\ ~start[w] /\ slot[w] = t /\ wpc[w] # "task"
    BY <1>5 DEF IInv, TypeOK, JobInv, AcquireInv, FilledInv, RaiseStart
  <2>2. ran[t] = 0 /\ \A v \in Workers : start[v] => slot[v] # t
    <3>1. CallerHolds(c, t) /\ ran[t] = 0
      BY <1>5, <2>1 DEF IInv, TaskInv, CallerHolds, RaiseStart
    <3> QED
      BY <2>1, <3>1 DEF IInv, TaskInv, WorkerHolds, DoneInv
  <2>3. start' = [start EXCEPT ![w] = TRUE] /\ UNCHANGED <<slot, wpc, ran>>
    BY <1>5 DEF RaiseStart
  <2>4. laneBar[w] = NoTask /\ statusBar[t] = "new"
    BY <2>1, <2>2 DEF laneBar, statusBar
  <2>5. laneBar' = [laneBar EXCEPT ![w] = t]
    BY <1>0, <2>1, <2>3 DEF laneBar, TypeOK
  <2>6. statusBar' = [statusBar EXCEPT ![t] = "accepted"]
    <3>1. statusBar'[t] = "accepted"
      BY <1>0, <2>1, <2>2, <2>3 DEF statusBar, TypeOK
    <3>2. ASSUME NEW u \in Tasks, u # t PROVE statusBar'[u] = statusBar[u]
      BY <1>0, <2>1, <2>3, <3>2 DEF statusBar, TypeOK
    <3> QED
      BY <3>1, <3>2, <2>1, ZenonT(60) DEF statusBar
  <2>7. Pool!Accept(w, t)
    BY <2>4, <2>5, <2>6 DEF Pool!Accept
  <2> QED
    BY <2>1, <2>7 DEF Pool!PoolNext
<1>6. ASSUME NEW w \in Workers, WorkerCheck(w)
      PROVE Pool!PoolNext \/ UNCHANGED <<laneBar, statusBar>>
  <2>1. CASE wpc'[w] # "task"
    BY <1>0, <1>6, <2>1, Invisible DEF WorkerCheck, TypeOK
  <2>2. CASE wpc'[w] = "task"
    <3> DEFINE t == slot[w]
    <3>1. /\ start[w] /\ wpc[w] = "check" /\ wpc' = [wpc EXCEPT ![w] = "task"]
          /\ UNCHANGED <<start, slot, ran>>
      BY <1>0, <1>6, <2>2 DEF WorkerCheck, TypeOK
    <3>2. t \in Tasks /\ t # NoTask /\ statusBar[t] = "accepted"
      BY <3>1, StatusOf
    <3>3. ran[t] = 0
      BY <3>1, <3>2 DEF IInv, TaskInv, WorkerHolds
    <3>4. laneBar[w] = t /\ laneBar' = laneBar
      BY <3>1 DEF laneBar
    <3>5. statusBar' = [statusBar EXCEPT ![t] = "running"]
      <4>1. statusBar'[t] = "running"
        BY <1>0, <3>1, <3>2, <3>3 DEF statusBar, TypeOK
      <4>2. ASSUME NEW u \in Tasks, u # t PROVE statusBar'[u] = statusBar[u]
        BY <1>0, <3>1, <4>2 DEF statusBar, TypeOK
      <4> QED
        BY <3>2, <4>1, <4>2 DEF statusBar
    <3>6. Pool!Begin(w)
      BY <3>2, <3>4, <3>5 DEF Pool!Begin
    <3> QED
      BY <3>6 DEF Pool!PoolNext
  <2> QED
    BY <2>1, <2>2
<1>7. ASSUME NEW w \in Workers, WorkerBlock(w) \/ SpuriousWake(w) \/ Release(w)
      PROVE UNCHANGED <<laneBar, statusBar>>
  BY <1>0, <1>7, Invisible DEF WorkerBlock, SpuriousWake, Release, TypeOK
<1>8. ASSUME NEW w \in Workers, RunTask(w) PROVE Pool!PoolNext
  <2> DEFINE t == slot[w]
  <2>1. start[w] /\ wpc[w] = "task"
    BY <1>8 DEF IInv, WorkerInv, RunTask
  <2>2. /\ wpc' = [wpc EXCEPT ![w] = "lower"] /\ ran' = [ran EXCEPT ![t] = @ + 1]
        /\ UNCHANGED <<start, slot>>
    BY <1>8 DEF RunTask
  <2>3. t \in Tasks /\ t # NoTask /\ statusBar[t] = "running"
    BY <2>1, StatusOf
  <2>4. ran[t] = 0
    BY <2>1, <2>3 DEF IInv, TaskInv, WorkerHolds
  <2>5. laneBar[w] = t /\ laneBar' = laneBar
    BY <2>1, <2>2 DEF laneBar
  <2>6. statusBar' = [statusBar EXCEPT ![t] = "done"]
    <3>1. statusBar'[t] = "done"
      BY <1>0, <2>2, <2>3, <2>4 DEF statusBar, TypeOK
    <3>2. ASSUME NEW u \in Tasks, u # t PROVE statusBar'[u] = statusBar[u]
      BY <1>0, <2>1, <2>2, <3>2 DEF statusBar, TypeOK
    <3> QED
      BY <2>3, <3>1, <3>2 DEF statusBar
  <2>7. Pool!Finish(w)
    BY <2>3, <2>5, <2>6 DEF Pool!Finish
  <2> QED
    BY <2>7 DEF Pool!PoolNext
<1>9. ASSUME NEW w \in Workers, LowerStart(w) PROVE Pool!PoolNext
  <2> DEFINE t == slot[w]
  <2>1. start[w] /\ wpc[w] = "lower"
    BY <1>9 DEF IInv, WorkerInv, LowerStart
  <2>2. /\ wpc' = [wpc EXCEPT ![w] = "release"] /\ start' = [start EXCEPT ![w] = FALSE]
        /\ UNCHANGED <<slot, ran>>
    BY <1>9 DEF LowerStart
  <2>3. t \in Tasks /\ t # NoTask /\ statusBar[t] = "done"
    BY <2>1, StatusOf
  <2>4. ran[t] > 0
    BY <2>1 DEF IInv, DoneInv
  <2>5. laneBar[w] = t /\ laneBar' = [laneBar EXCEPT ![w] = NoTask]
    BY <1>0, <2>1, <2>2 DEF laneBar, TypeOK
  <2>6. statusBar' = statusBar
    <3>1. ASSUME NEW u \in Tasks PROVE statusBar'[u] = statusBar[u]
      BY <1>0, <2>1, <2>2, <2>4 DEF statusBar, TypeOK
    <3> QED
      BY <3>1 DEF statusBar
  <2>7. Pool!Free(w)
    BY <2>3, <2>5, <2>6 DEF Pool!Free
  <2> QED
    BY <2>7 DEF Pool!PoolNext
<1>10. ASSUME Destroy \/ RaiseExit \/ NotifyExit \/ Join
       PROVE UNCHANGED <<laneBar, statusBar>>
  BY <1>0, <1>10, Invisible DEF Destroy, RaiseExit, NotifyExit, Join, Wake, TypeOK
<1>11. ASSUME UNCHANGED vars PROVE UNCHANGED <<laneBar, statusBar>>
  BY <1>0, <1>11, Invisible DEF vars
<1> QED
  BY <1>1, <1>2, <1>3, <1>4, <1>5, <1>6, <1>7, <1>8, <1>9, <1>10, <1>11
     DEF Next, CallerStep, WorkerStep, DtorStep, Pool!poolVars

\* ThreadPool implements TaskPool for every number of workers, callers and
\* tasks: a worker runs one task at a time, accepted once and begun once.
THEOREM Implements == Spec => ImplementsTaskPool
  BY InitRefines, NextRefines, Inductive, PTL DEF Spec, ImplementsTaskPool, Pool!PoolSpec
=============================================================================
