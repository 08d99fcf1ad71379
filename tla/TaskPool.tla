------------------------------ MODULE TaskPool ------------------------------
(***************************************************************************)
(* What Base_ns::ThreadPool (include/sdk/base/ThreadPool.h) promises the   *)
(* code that hands it tasks: a fixed set of lanes, one task at a time in a *)
(* lane, and a task that is accepted at most once, begins only after that  *)
(* and never begins twice.  ThreadPool.tla is shown to implement it.       *)
(***************************************************************************)
CONSTANTS Lanes,   \* the worker threads
          Tasks,   \* the tasks that may ever be submitted
          NoTask   \* an empty lane

VARIABLES lane,    \* lane[w]: the task worker w has accepted and not given back
          status   \* status[t]: how far task t has come

poolVars == <<lane, status>>

PoolInit == /\ lane = [w \in Lanes |-> NoTask]
            /\ status = [t \in Tasks |-> "new"]

\* A free lane takes a task nobody took before.
Accept(w, t) == /\ lane[w] = NoTask
                /\ status[t] = "new"
                /\ lane' = [lane EXCEPT ![w] = t]
                /\ status' = [status EXCEPT ![t] = "accepted"]

Begin(w) == /\ lane[w] # NoTask
            /\ status[lane[w]] = "accepted"
            /\ status' = [status EXCEPT ![lane[w]] = "running"]
            /\ UNCHANGED lane

Finish(w) == /\ lane[w] # NoTask
             /\ status[lane[w]] = "running"
             /\ status' = [status EXCEPT ![lane[w]] = "done"]
             /\ UNCHANGED lane

\* Only a lane whose task is done becomes free again.
Free(w) == /\ lane[w] # NoTask
           /\ status[lane[w]] = "done"
           /\ lane' = [lane EXCEPT ![w] = NoTask]
           /\ UNCHANGED status

PoolNext == \E w \in Lanes : \/ \E t \in Tasks : Accept(w, t)
                             \/ Begin(w)
                             \/ Finish(w)
                             \/ Free(w)

PoolSpec == PoolInit /\ [][PoolNext]_poolVars
=============================================================================
