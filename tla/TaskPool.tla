------------------------------ MODULE TaskPool ------------------------------
(***************************************************************************)
(* What runtime/vm/thread_pool.h promises to its callers: a task handed to *)
(* ThreadPool::Run is executed once and deleted, unless the pool is being  *)
(* shut down, in which case Run returns without taking it.  Workers,       *)
(* lists, monitors and timeouts are details of ThreadPool.tla, which       *)
(* implements this specification; MessageHandler.tla is built on it.       *)
(***************************************************************************)

CONSTANT Tasks

VARIABLES
  life,      \* life[t]: where the Task object t is
  closing    \* the destructor has started

poolVars == <<life, closing>>

Lives == {"new", "accepted", "running", "deleted", "dropped"}

Init ==
  /\ life = [t \in Tasks |-> "new"]
  /\ closing = FALSE

\* Run(task) on a pool that is open.
Accept(t) ==
  /\ ~closing
  /\ life[t] = "new"
  /\ life' = [life EXCEPT ![t] = "accepted"]
  /\ UNCHANGED closing

\* Run(task) on a pool that is shutting down: the task is not taken.
Drop(t) ==
  /\ closing
  /\ life[t] = "new"
  /\ life' = [life EXCEPT ![t] = "dropped"]
  /\ UNCHANGED closing

\* Some worker thread enters task->Run().
Start(t) ==
  /\ life[t] = "accepted"
  /\ life' = [life EXCEPT ![t] = "running"]
  /\ UNCHANGED closing

\* task->Run() has returned and the worker has deleted the task.
Finish(t) ==
  /\ life[t] = "running"
  /\ life' = [life EXCEPT ![t] = "deleted"]
  /\ UNCHANGED closing

\* ~ThreadPool.
Close ==
  /\ ~closing
  /\ closing' = TRUE
  /\ UNCHANGED life

Next ==
  \/ Close
  \/ \E t \in Tasks : Accept(t) \/ Drop(t) \/ Start(t) \/ Finish(t)

Spec == Init /\ [][Next]_poolVars
=============================================================================
