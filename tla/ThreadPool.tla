----------------------------- MODULE ThreadPool -----------------------------
(***************************************************************************)
(* runtime/vm/thread_pool.{h,cc}: a pool of worker threads.                *)
(*                                                                         *)
(* Threads: the callers of ThreadPool::Run (Clients; a task that calls Run *)
(* is one of them), the one that destroys the pool, and the workers.  Each *)
(* action is one critical section of ThreadPool::mutex_ or of one          *)
(* Worker::monitor_, or the code between two of them.  A worker holds its  *)
(* own monitor across its calls to SetIdle and ReleaseIdleWorker, so that  *)
(* nobody else can enter it while the worker is at one of those points.    *)
(* A Worker object is allocated at most once, so Workers bounds the number *)
(* of `new Worker' in a behaviour; with as many workers as tasks the bound *)
(* is never the reason that a step is disabled.                            *)
(***************************************************************************)
EXTENDS Lists

CONSTANTS
  Workers,            \* the Worker objects that may be allocated
  Clients,            \* the threads that call Run
  Tasks,              \* the Task objects
  NoWorker, NoTask,   \* NULL
  WorkerTimeout,      \* FLAG_worker_timeout_millis > 0
  RunMayOverlapShutdown
                      \* may the pool be destroyed while a call of Run is
                      \* between its mutex_ section and its return?

ASSUME NullAssumption == NoWorker \notin Workers /\ NoTask \notin Tasks
ASSUME FlagAssumption ==
  WorkerTimeout \in BOOLEAN /\ RunMayOverlapShutdown \in BOOLEAN

VARIABLES
  \* ThreadPool, protected by mutex_
  shutting_down, all_workers, idle_workers,
  count_started, count_stopped, count_running, count_idle,
  \* Worker, protected by its monitor_ (owned_: by mutex_)
  pool,       \* pool[w]: pool_ is not NULL
  task,       \* task[w]: task_
  owned,      \* owned[w]: owned_
  wpc,        \* where the worker's thread is
  running,    \* running[w]: the local variable `task' of Loop
  notified,   \* a Notify reached the worker's Wait
  \* callers of Run
  rpc, rworker, rtask,
  \* the caller of Shutdown
  spc, saved,
  \* the Task objects
  life

listVars   == <<shutting_down, all_workers, idle_workers>>
countVars  == <<count_started, count_stopped, count_running, count_idle>>
workerVars == <<pool, task, owned, wpc, running, notified>>
runVars    == <<rpc, rworker, rtask>>
downVars   == <<spc, saved>>
vars == <<listVars, countVars, workerVars, runVars, downVars, life>>

WorkerPCs == {"unborn", "allocated", "start", "running", "SetIdle", "waiting",
              "ReleaseIdleWorker", "exiting", "deleted"}
RunPCs == {"none", "SetTask", "SetFirstTask", "StartThread"}
Lives == {"new", "accepted", "running", "deleted", "dropped"}

\* The worker's thread is inside its monitor_ between two actions.
HoldsMonitor(w) == wpc[w] \in {"SetIdle", "ReleaseIdleWorker"}

Init ==
  /\ shutting_down = FALSE
  /\ all_workers = <<>> /\ idle_workers = <<>>
  /\ count_started = 0 /\ count_stopped = 0
  /\ count_running = 0 /\ count_idle = 0
  /\ pool = [w \in Workers |-> FALSE]
  /\ task = [w \in Workers |-> NoTask]
  /\ owned = [w \in Workers |-> FALSE]
  /\ wpc = [w \in Workers |-> "unborn"]
  /\ running = [w \in Workers |-> NoTask]
  /\ notified = [w \in Workers |-> FALSE]
  /\ rpc = [c \in Clients |-> "none"]
  /\ rworker = [c \in Clients |-> NoWorker]
  /\ rtask = [c \in Clients |-> NoTask]
  /\ spc = "none" /\ saved = <<>>
  /\ life = [t \in Tasks |-> "new"]

-----------------------------------------------------------------------------
(* ThreadPool::Run *)

\* The pool is shutting down: return without taking the task.  The object
\* of the pool exists until the destructor is done.
RunRefused(c, t) ==
  /\ rpc[c] = "none" /\ life[t] = "new" /\ spc # "done"
  /\ shutting_down
  /\ life' = [life EXCEPT ![t] = "dropped"]
  /\ UNCHANGED <<listVars, countVars, workerVars, runVars, downVars>>

\* No idle worker: allocate one and put it on the all_workers_ list.
RunNewWorker(c, t, w) ==
  /\ rpc[c] = "none" /\ life[t] = "new" /\ spc # "done"
  /\ ~shutting_down
  /\ idle_workers = <<>>
  /\ wpc[w] = "unborn"
  /\ count_started' = count_started + 1
  /\ all_workers' = <<w>> \o all_workers
  /\ owned' = [owned EXCEPT ![w] = TRUE]
  /\ pool' = [pool EXCEPT ![w] = TRUE]
  /\ wpc' = [wpc EXCEPT ![w] = "allocated"]
  /\ count_running' = count_running + 1
  /\ rpc' = [rpc EXCEPT ![c] = "SetFirstTask"]
  /\ rworker' = [rworker EXCEPT ![c] = w]
  /\ rtask' = [rtask EXCEPT ![c] = t]
  /\ life' = [life EXCEPT ![t] = "accepted"]
  /\ UNCHANGED <<shutting_down, idle_workers, count_stopped, count_idle,
                 task, running, notified, downVars>>

\* Take the first worker of the idle list.
RunIdleWorker(c, t) ==
  /\ rpc[c] = "none" /\ life[t] = "new" /\ spc # "done"
  /\ ~shutting_down
  /\ idle_workers # <<>>
  /\ idle_workers' = Tail(idle_workers)
  /\ count_idle' = count_idle - 1
  /\ count_running' = count_running + 1
  /\ rpc' = [rpc EXCEPT ![c] = "SetTask"]
  /\ rworker' = [rworker EXCEPT ![c] = Head(idle_workers)]
  /\ rtask' = [rtask EXCEPT ![c] = t]
  /\ life' = [life EXCEPT ![t] = "accepted"]
  /\ UNCHANGED <<shutting_down, all_workers, count_started, count_stopped,
                 workerVars, downVars>>

ReturnFromRun(c) ==
  /\ rpc' = [rpc EXCEPT ![c] = "none"]
  /\ rworker' = [rworker EXCEPT ![c] = NoWorker]
  /\ rtask' = [rtask EXCEPT ![c] = NoTask]

\* Worker::SetTask, after mutex_ has been released.  Notify wakes the
\* worker only if it waits; on a deleted worker it writes to dead memory.
SetTask(c) ==
  LET w == rworker[c] IN
  /\ rpc[c] \in {"SetTask", "SetFirstTask"}
  /\ ~HoldsMonitor(w)
  /\ task' = [task EXCEPT ![w] = rtask[c]]
  /\ notified' = [notified EXCEPT ![w] = (wpc[w] = "waiting")]
  /\ IF rpc[c] = "SetFirstTask"
       THEN /\ rpc' = [rpc EXCEPT ![c] = "StartThread"]
            /\ UNCHANGED <<rworker, rtask>>
       ELSE ReturnFromRun(c)
  /\ UNCHANGED <<listVars, countVars, pool, owned, wpc, running, downVars, life>>

\* Worker::StartThread, for a new worker only.
StartThread(c) ==
  /\ rpc[c] = "StartThread"
  /\ wpc' = [wpc EXCEPT ![rworker[c]] = "start"]
  /\ ReturnFromRun(c)
  /\ UNCHANGED <<listVars, countVars, pool, task, owned, running, notified,
                 downVars, life>>

-----------------------------------------------------------------------------
(* Worker::Main and Worker::Loop *)

\* Mutant: task_ is not cleared.
TakeTaskKeeping(w) ==
  /\ running' = [running EXCEPT ![w] = task[w]]
  /\ life' = [life EXCEPT ![task[w]] = "running"]
  /\ UNCHANGED task

\* The loop takes task_, clears it and leaves the monitor to run the task.
TakeTask(w) ==
  /\ running' = [running EXCEPT ![w] = task[w]]
  /\ task' = [task EXCEPT ![w] = NoTask]
  /\ life' = [life EXCEPT ![task[w]] = "running"]

\* First iteration of Loop on a new thread.
EnterLoop(w) ==
  /\ wpc[w] = "start"
  /\ wpc' = [wpc EXCEPT ![w] = "running"]
  /\ TakeTask(w)
  /\ UNCHANGED <<listVars, countVars, pool, owned, notified, runVars, downVars>>

\* task->Run() returns, the task is deleted, the monitor entered again; a
\* worker that is done leaves the loop, any other calls pool_->SetIdle.
FinishTask(w) ==
  /\ wpc[w] = "running"
  /\ life' = [life EXCEPT ![running[w]] = "deleted"]
  /\ running' = [running EXCEPT ![w] = NoTask]
  /\ wpc' = [wpc EXCEPT ![w] = IF pool[w] THEN "SetIdle" ELSE "exiting"]
  /\ UNCHANGED <<listVars, countVars, pool, task, owned, notified,
                 runVars, downVars>>

\* ThreadPool::SetIdle, then Wait, which releases the monitor.
SetIdle(w) ==
  /\ wpc[w] = "SetIdle"
  /\ wpc' = [wpc EXCEPT ![w] = "waiting"]
  /\ IF shutting_down
       THEN UNCHANGED <<idle_workers, count_idle, count_running>>
       ELSE /\ idle_workers' = <<w>> \o idle_workers
            /\ count_idle' = count_idle + 1
            /\ count_running' = count_running - 1
  /\ UNCHANGED <<shutting_down, all_workers, count_started, count_stopped,
                 pool, task, owned, running, notified, runVars, downVars, life>>

\* Mutant: a worker that is done ignores its task.
DoneBeforeTask(w, why) ==
  IF ~pool[w] THEN "exiting"
  ELSE IF task[w] # NoTask THEN "running"
  ELSE IF why = "timed out" THEN "ReleaseIdleWorker" ELSE "waiting"

\* What the loop does when Wait has returned: a task comes first.
AfterWait(w, why) ==
  IF task[w] # NoTask THEN "running"
  ELSE IF ~pool[w] THEN "exiting"
  ELSE IF why = "timed out" THEN "ReleaseIdleWorker" ELSE "waiting"

\* Wait returns, for the reason `why', and the monitor is held again.
Wake(w, why) ==
  /\ wpc[w] = "waiting"
  /\ notified' = [notified EXCEPT ![w] = FALSE]
  /\ wpc' = [wpc EXCEPT ![w] = AfterWait(w, why)]
  /\ IF AfterWait(w, why) = "running"
       THEN TakeTask(w)
       ELSE UNCHANGED <<running, task, life>>
  /\ UNCHANGED <<listVars, countVars, pool, owned, runVars, downVars>>

WakeNotified(w) == notified[w] /\ Wake(w, "notified")
WakeSpurious(w) == Wake(w, "spurious")

\* ComputeTimeout: a worker waits for ever when the flag is not positive.
WakeTimedOut(w) == WorkerTimeout /\ Wake(w, "timed out")

\* Mutant: a worker that Run has just taken off the idle list ends as well.
MayReleaseTaken(w) == ~shutting_down

\* The early returns of ReleaseIdleWorker.
MayRelease(w) == ~shutting_down /\ w \in Range(idle_workers)

\* ThreadPool::ReleaseIdleWorker: the worker takes itself off both lists
\* and ends, unless Run or Shutdown was faster; then it waits again.
ReleaseIdleWorker(w) ==
  /\ wpc[w] = "ReleaseIdleWorker"
  /\ IF MayRelease(w)
       THEN /\ idle_workers' = Unlink(idle_workers, w)
            /\ pool' = [pool EXCEPT ![w] = (Head(all_workers) # w)]
            /\ all_workers' = Unlink(all_workers, w)
            /\ owned' = [owned EXCEPT ![w] = FALSE]
            /\ count_stopped' = count_stopped + 1
            /\ count_idle' = count_idle - 1
            /\ wpc' = [wpc EXCEPT ![w] = "exiting"]
       ELSE /\ wpc' = [wpc EXCEPT ![w] = "waiting"]
            /\ UNCHANGED <<all_workers, idle_workers, count_stopped, count_idle,
                           pool, owned>>
  /\ UNCHANGED <<shutting_down, count_started, count_running,
                 task, running, notified, runVars, downVars, life>>

\* The end of Worker::Main: delete worker.
DeleteWorker(w) ==
  /\ wpc[w] = "exiting"
  /\ wpc' = [wpc EXCEPT ![w] = "deleted"]
  /\ UNCHANGED <<listVars, countVars, pool, task, owned, running, notified,
                 runVars, downVars, life>>

-----------------------------------------------------------------------------
(* ~ThreadPool and ThreadPool::Shutdown *)

\* The mutex_ section: every worker is disowned.
Shutdown ==
  /\ spc = "none"
  /\ RunMayOverlapShutdown \/ \A c \in Clients : rpc[c] = "none"
  /\ spc' = "walking"
  /\ shutting_down' = TRUE
  /\ saved' = all_workers
  /\ all_workers' = <<>> /\ idle_workers' = <<>>
  /\ owned' = [w \in Workers |-> owned[w] /\ w \notin Range(all_workers)]
  /\ count_stopped' = count_stopped + Len(all_workers)
  /\ count_idle' = 0 /\ count_running' = 0
  /\ UNCHANGED <<count_started, pool, task, wpc, running, notified, runVars, life>>

\* Mutant: pool_ is cleared without a Notify.
ShutdownWorkerSilently ==
  LET w == Head(saved) IN
  /\ spc = "walking" /\ saved # <<>>
  /\ ~HoldsMonitor(w)
  /\ saved' = Tail(saved)
  /\ pool' = [pool EXCEPT ![w] = FALSE]
  /\ UNCHANGED <<listVars, countVars, task, owned, wpc, running, notified,
                 runVars, spc, life>>

\* One iteration of the walk over the saved list: Worker::Shutdown.
ShutdownWorker ==
  LET w == Head(saved) IN
  /\ spc = "walking" /\ saved # <<>>
  /\ ~HoldsMonitor(w)
  /\ saved' = Tail(saved)
  /\ pool' = [pool EXCEPT ![w] = FALSE]
  /\ notified' = [notified EXCEPT ![w] = (wpc[w] = "waiting")]
  /\ UNCHANGED <<listVars, countVars, task, owned, wpc, running, runVars, spc, life>>

\* The destructor returns; the memory of the pool is gone.
ShutdownDone ==
  /\ spc = "walking" /\ saved = <<>>
  /\ spc' = "done"
  /\ UNCHANGED <<listVars, countVars, workerVars, runVars, saved, life>>

-----------------------------------------------------------------------------

\* The pool is gone and so are its threads.
Terminated ==
  /\ spc = "done"
  /\ \A w \in Workers : wpc[w] \in {"unborn", "deleted"}
  /\ \A c \in Clients : rpc[c] = "none"
  /\ UNCHANGED vars

WorkerStep(w) ==
  \/ EnterLoop(w) \/ FinishTask(w) \/ SetIdle(w)
  \/ WakeNotified(w) \/ WakeSpurious(w) \/ WakeTimedOut(w)
  \/ ReleaseIdleWorker(w) \/ DeleteWorker(w)

RunStep(c) ==
  \/ \E t \in Tasks : \/ RunRefused(c, t) \/ RunIdleWorker(c, t)
                      \/ \E w \in Workers : RunNewWorker(c, t, w)
  \/ SetTask(c) \/ StartThread(c)

Next ==
  \/ \E c \in Clients : RunStep(c)
  \/ \E w \in Workers : WorkerStep(w)
  \/ Shutdown \/ ShutdownWorker \/ ShutdownDone
  \/ Terminated

Spec == Init /\ [][Next]_vars

\* Every thread that can move moves: a call of Run and the destructor run to
\* their end, tasks return, a Notify wakes the thread that waits.  A thread
\* that wants the monitor of a worker that keeps timing out finds it free
\* for at least the millisecond of each Wait, again and again (SF).  Nobody
\* is obliged to call Run or to destroy the pool, and a worker is owed
\* neither a timeout nor a spurious wakeup.
Fairness ==
  /\ \A c \in Clients : SF_vars(SetTask(c)) /\ WF_vars(StartThread(c))
  /\ \A w \in Workers :
       /\ WF_vars(EnterLoop(w)) /\ WF_vars(FinishTask(w))
       /\ WF_vars(SetIdle(w)) /\ WF_vars(WakeNotified(w))
       /\ WF_vars(ReleaseIdleWorker(w)) /\ WF_vars(DeleteWorker(w))
  /\ SF_vars(ShutdownWorker) /\ WF_vars(ShutdownDone)

FairSpec == Spec /\ Fairness

-----------------------------------------------------------------------------
(* Properties *)

\* Type invariant.  The statistics are uint64_t, so none may ever go below
\* zero.
TypeOK ==
  /\ shutting_down \in BOOLEAN
  /\ all_workers \in Seq(Workers) /\ idle_workers \in Seq(Workers)
  /\ count_started \in Nat /\ count_stopped \in Nat
  /\ count_running \in Nat /\ count_idle \in Nat
  /\ pool \in [Workers -> BOOLEAN]
  /\ task \in [Workers -> Tasks \cup {NoTask}]
  /\ owned \in [Workers -> BOOLEAN]
  /\ wpc \in [Workers -> WorkerPCs]
  /\ running \in [Workers -> Tasks \cup {NoTask}]
  /\ notified \in [Workers -> BOOLEAN]
  /\ rpc \in [Clients -> RunPCs]
  /\ rworker \in [Clients -> Workers \cup {NoWorker}]
  /\ rtask \in [Clients -> Tasks \cup {NoTask}]
  /\ spc \in {"none", "walking", "done"} /\ saved \in Seq(Workers)
  /\ life \in [Tasks -> Lives]

\* The workers that some other thread is about to dereference: the ones on
\* the lists, the one a call of Run has chosen and the rest of the list that
\* Shutdown walks.
Reachable ==
  Range(all_workers) \cup Range(idle_workers) \cup Range(saved)
    \cup {rworker[c] : c \in {d \in Clients : rpc[d] # "none"}}

\* Nobody dereferences a Worker that has been deleted: Run releases mutex_
\* before SetTask and StartThread, and Shutdown walks all_next_ unlocked.
NoUseAfterDelete ==
  \A w \in Reachable : wpc[w] \notin {"unborn", "deleted"}

\* A worker on the idle list is parked without a task and no other call of
\* Run has chosen it, so Run never gives two tasks to one worker; the task_
\* that SetTask overwrites is NULL (the ASSERT in Worker::SetTask).
OneTaskPerWorker ==
  /\ \A w \in Range(idle_workers) :
       /\ wpc[w] \in {"waiting", "ReleaseIdleWorker"} /\ task[w] = NoTask
       /\ \A c \in Clients : rworker[c] # w
  /\ \A c \in Clients : rpc[c] \in {"SetTask", "SetFirstTask"} =>
       /\ task[rworker[c]] = NoTask
       /\ \A d \in Clients \ {c} : rworker[d] # rworker[c]

\* A thread that runs Loop always finds what its ASSERTs expect: a task when
\* it starts an iteration, and none when a task has returned.
LoopAsserts ==
  \A w \in Workers : /\ wpc[w] = "start" => task[w] # NoTask
                     /\ wpc[w] \in {"running", "SetIdle"} => task[w] = NoTask

\* A thread that leaves Main is on no list and not owned (the ASSERT in
\* Worker::Main, which reads those fields without a lock).
ExitingIsDisowned ==
  \A w \in Workers : wpc[w] = "exiting" =>
    /\ ~owned[w]
    /\ w \notin Range(all_workers) \cup Range(idle_workers) \cup Range(saved)

\* The statistics agree with the lists while the pool is open, and every
\* worker that was started is counted as stopped when it is closed (the
\* ASSERT in Shutdown).
CountersAgree ==
  /\ count_started - count_stopped = Len(all_workers)
  /\ count_idle = Len(idle_workers)
  /\ count_running = Len(all_workers) - Len(idle_workers)

\* Once the destructor has returned no worker is about to call SetIdle or
\* ReleaseIdleWorker on the pool: Worker::Shutdown clears pool_ under the
\* worker's monitor.
PoolOutlivesUse ==
  spc = "done" => \A w \in Workers :
    /\ wpc[w] \notin {"SetIdle", "ReleaseIdleWorker"}
    /\ pool[w] => wpc[w] \in {"unborn", "exiting", "deleted"}

-----------------------------------------------------------------------------
(* An inductive invariant from which the properties above follow; see      *)
(* ThreadPoolProofs.                                                       *)

Alive(w) == wpc[w] \notin {"unborn", "exiting", "deleted"}

\* The linked lists have no cycles.
ListInv ==
  /\ IsInjective(all_workers) /\ IsInjective(idle_workers) /\ IsInjective(saved)
  /\ Range(idle_workers) \subseteq Range(all_workers)

\* The lists are handed over to Shutdown, which no call of Run overlaps.
PhaseInv ==
  /\ shutting_down <=> spc # "none"
  /\ spc # "none" => all_workers = <<>> /\ idle_workers = <<>>
  /\ spc # "walking" => saved = <<>>
  /\ spc # "none" => \A c \in Clients : rpc[c] = "none"

\* The living workers with a pool_ are the ones on the list that leads to
\* Worker::Shutdown; a parked worker is without a task.
WorkerOK(w) ==
  /\ owned[w] <=> w \in Range(all_workers)
  /\ Alive(w) /\ pool[w] <=> w \in Range(all_workers) \cup Range(saved)
  /\ HoldsMonitor(w) => pool[w]
  /\ wpc[w] = "start" => task[w] # NoTask
  /\ wpc[w] = "running" => running[w] # NoTask
  /\ wpc[w] \in {"unborn", "running", "SetIdle"} => task[w] = NoTask
  /\ w \in Range(idle_workers) =>
       wpc[w] \in {"waiting", "ReleaseIdleWorker"} /\ task[w] = NoTask

WorkerInv == \A w \in Workers : WorkerOK(w)

\* A call of Run has a worker for itself, and the worker waits for it.
RunOK(c) ==
  /\ rpc[c] = "none" => rworker[c] = NoWorker
  /\ rpc[c] # "none" =>
       /\ rworker[c] \in Workers /\ rtask[c] \in Tasks
       /\ \A d \in Clients \ {c} : rworker[d] # rworker[c]
       /\ rworker[c] \in Range(all_workers) /\ rworker[c] \notin Range(idle_workers)
  /\ rpc[c] \in {"SetFirstTask", "StartThread"} => wpc[rworker[c]] = "allocated"
  /\ rpc[c] \in {"SetFirstTask", "SetTask"} => task[rworker[c]] = NoTask
  /\ rpc[c] = "StartThread" => task[rworker[c]] # NoTask
  /\ rpc[c] = "SetTask" => wpc[rworker[c]] \in {"waiting", "ReleaseIdleWorker"}

RunInv == \A c \in Clients : RunOK(c)

IndInv ==
  TypeOK /\ ListInv /\ PhaseInv /\ WorkerInv /\ RunInv /\ CountersAgree

-----------------------------------------------------------------------------
\* The pool keeps the promise of TaskPool: a task runs once, is deleted
\* afterwards, and is refused only by a pool that is being destroyed.
TaskPoolSpec == INSTANCE TaskPool WITH closing <- shutting_down
ImplementsTaskPool == TaskPoolSpec!Spec

\* A task that Run has accepted is run, whatever timeouts, spurious wakeups
\* and the destructor do in between ("Process it, regardless of whether the
\* worker is done_").
AcceptedTaskRuns ==
  \A t \in Tasks : life[t] = "accepted" ~> life[t] = "deleted"

\* "Causes workers to terminate themselves when they are active again."
WorkersTerminate ==
  shutting_down ~> \A w \in Workers : wpc[w] \in {"unborn", "deleted"}
=============================================================================
