-------------------------- MODULE ThreadPoolProofs --------------------------
(***************************************************************************)
(* The safety theorems about ThreadPool, for any number of workers,        *)
(* callers and tasks, and the refinement of TaskPool.  They assume that    *)
(* the destructor does not overlap a call of Run: a worker that such a     *)
(* call has chosen could be deleted before SetTask reaches it.             *)
(***************************************************************************)
EXTENDS ThreadPool, DataLemmas

\* Zenon for a moment, then SMT, then Zenon for longer.
USE ZenonT(2), SMTT(30), ZenonT(30)

USE DEF listVars, countVars, workerVars, runVars, downVars

-----------------------------------------------------------------------------
(* Every action preserves IndInv.  What an action does to a linked list is *)
(* an assumption here and is discharged below with the lemmas of           *)
(* DataLemmas.                                                             *)

\* What a push at the head, and a removal, do to a list.
Pushed(list, w, new) ==
  /\ new \in Seq(Workers) /\ Len(new) = Len(list) + 1
  /\ Range(new) = {w} \cup Range(list) /\ IsInjective(new)
Removed(list, w, new) ==
  /\ new \in Seq(Workers) /\ Len(list) >= 1 /\ Len(new) = Len(list) - 1
  /\ Range(new) = Range(list) \ {w} /\ IsInjective(new)

LEMMA EmptyList == Range(<<>>) = {} /\ IsInjective(<<>>) /\ Len(<<>>) = 0
BY DEF Range, IsInjective

\* The step leaves the fields of worker v that the invariant speaks of alone.
SameWorker(v) ==
  /\ wpc'[v] = wpc[v] /\ pool'[v] = pool[v] /\ owned'[v] = owned[v]
  /\ task'[v] = task[v] /\ running'[v] = running[v]

SameOnLists(v) ==
  /\ v \in Range(all_workers') <=> v \in Range(all_workers)
  /\ v \in Range(idle_workers') <=> v \in Range(idle_workers)
  /\ v \in Range(saved') <=> v \in Range(saved)

LEMMA WorkerFrame ==
  ASSUME NEW v \in Workers, WorkerOK(v), SameWorker(v), SameOnLists(v)
  PROVE  WorkerOK(v)'
BY DEF WorkerOK, SameWorker, SameOnLists, Alive, HoldsMonitor

LEMMA RunFrame ==
  ASSUME NEW c \in Clients, RunOK(c), UNCHANGED runVars,
         rpc[c] # "none" => SameWorker(rworker[c]) /\ SameOnLists(rworker[c])
  PROVE  RunOK(c)'
<1>1. CASE rpc[c] = "none"
  BY <1>1 DEF RunOK
<1>2. CASE rpc[c] # "none"
  BY <1>2 DEF RunOK, SameWorker, SameOnLists
<1> QED BY <1>1, <1>2

\* A step of worker w that touches no list: only w and the call of Run that
\* has chosen w need a look.
LEMMA WorkerAlone ==
  ASSUME IndInv, TypeOK', NEW w \in Workers,
         UNCHANGED <<listVars, countVars, runVars, downVars>>,
         \A v \in Workers \ {w} : SameWorker(v),
         WorkerOK(w)',
         \A c \in Clients : rpc[c] # "none" /\ rworker[c] = w => RunOK(c)'
  PROVE  IndInv'
<1>1. \A v \in Workers : SameOnLists(v)
  BY DEF SameOnLists
<1>2. WorkerInv'
  <2> SUFFICES ASSUME NEW v \in Workers, v # w PROVE WorkerOK(v)'
    BY DEF WorkerInv
  <2>1. WorkerOK(v) /\ SameWorker(v) /\ SameOnLists(v)
    BY <1>1 DEF IndInv, WorkerInv
  <2> QED BY <2>1, WorkerFrame
<1>3. RunInv'
  <2> SUFFICES ASSUME NEW c \in Clients PROVE RunOK(c)'
    BY DEF RunInv
  <2>1. RunOK(c)
    BY DEF IndInv, RunInv
  <2>2. rpc[c] # "none" => rworker[c] \in Workers
    BY <2>1 DEF RunOK
  <2> QED BY <1>1, <2>1, <2>2, RunFrame
<1>4. ListInv' /\ PhaseInv'
  BY DEF IndInv, ListInv, PhaseInv
<1>5. CountersAgree'
  BY DEF IndInv, CountersAgree
<1> QED BY <1>2, <1>3, <1>4, <1>5 DEF IndInv

LEMMA RunRefusedStep ==
  ASSUME IndInv, NEW c \in Clients, NEW t \in Tasks, RunRefused(c, t)
  PROVE  IndInv'
<1>1. TypeOK'
  BY DEF IndInv, TypeOK, Lives, RunRefused
<1>2. UNCHANGED <<listVars, countVars, workerVars, runVars, downVars>>
  BY DEF RunRefused
<1>3. ListInv' /\ PhaseInv' /\ CountersAgree'
  BY <1>2 DEF IndInv, ListInv, PhaseInv, CountersAgree
<1>4. WorkerInv' /\ RunInv'
  BY <1>2 DEF IndInv, WorkerInv, WorkerOK, RunInv, RunOK, Alive, HoldsMonitor
<1> QED BY <1>1, <1>3, <1>4 DEF IndInv

LEMMA RunNewWorkerStep ==
  ASSUME IndInv, NEW c \in Clients, NEW t \in Tasks, NEW w \in Workers,
         RunNewWorker(c, t, w), Pushed(all_workers, w, all_workers')
  PROVE  IndInv'
<1>0. WorkerOK(w) /\ RunOK(c) /\ wpc[w] = "unborn"
  BY DEF IndInv, WorkerInv, RunInv, RunNewWorker
<1>1. /\ wpc[w] = "unborn" /\ task[w] = NoTask
      /\ w \notin Range(all_workers) /\ w \notin Range(saved)
  BY <1>0, ZenonT(30) DEF WorkerOK, Alive
<1>2. /\ all_workers' \in Seq(Workers) /\ Len(all_workers') = Len(all_workers) + 1
      /\ Range(all_workers') = {w} \cup Range(all_workers)
      /\ IsInjective(all_workers')
  BY DEF Pushed
<1>3. /\ idle_workers = <<>> /\ idle_workers' = <<>> /\ Range(idle_workers) = {}
      /\ saved' = saved /\ spc' = spc /\ shutting_down' = shutting_down
      /\ ~shutting_down
  BY EmptyList DEF RunNewWorker
<1>4. TypeOK'
  <2>1. all_workers' \in Seq(Workers)
    BY <1>2
  <2>2. /\ pool' \in [Workers -> BOOLEAN] /\ owned' \in [Workers -> BOOLEAN]
    BY DEF IndInv, TypeOK, RunNewWorker
  <2>3. wpc' \in [Workers -> WorkerPCs] /\ rpc' \in [Clients -> RunPCs]
    BY DEF IndInv, TypeOK, WorkerPCs, RunPCs, RunNewWorker
  <2>4. /\ rworker' \in [Clients -> Workers \cup {NoWorker}]
        /\ rtask' \in [Clients -> Tasks \cup {NoTask}]
    BY DEF IndInv, TypeOK, RunNewWorker
  <2>5. life' \in [Tasks -> Lives]
    BY DEF IndInv, TypeOK, Lives, RunNewWorker
  <2>6. count_started' \in Nat /\ count_running' \in Nat
    BY DEF IndInv, TypeOK, RunNewWorker
  <2> QED BY <2>1, <2>2, <2>3, <2>4, <2>5, <2>6 DEF IndInv, TypeOK, RunNewWorker
<1>5. /\ wpc'[w] = "allocated" /\ pool'[w] = TRUE /\ owned'[w] = TRUE
      /\ task'[w] = NoTask
      /\ \A v \in Workers \ {w} : SameWorker(v)
  BY <1>1 DEF IndInv, TypeOK, RunNewWorker, SameWorker
<1>6. /\ rpc'[c] = "SetFirstTask" /\ rworker'[c] = w /\ rtask'[c] = t
      /\ \A d \in Clients \ {c} :
           rpc'[d] = rpc[d] /\ rworker'[d] = rworker[d] /\ rtask'[d] = rtask[d]
  BY DEF IndInv, TypeOK, RunNewWorker
<1>7. ListInv'
  BY <1>2, <1>3, EmptyList DEF IndInv, ListInv
<1>8. PhaseInv'
  BY <1>3 DEF IndInv, PhaseInv
<1>9. WorkerInv'
  <2> SUFFICES ASSUME NEW v \in Workers PROVE WorkerOK(v)'
    BY DEF WorkerInv
  <2>1. CASE v = w
    BY <1>2, <1>3, <1>5, <2>1 DEF WorkerOK, Alive, HoldsMonitor
  <2>2. CASE v # w
    <3>1. WorkerOK(v) /\ SameWorker(v) /\ SameOnLists(v)
      BY <1>2, <1>3, <1>5, <2>2 DEF IndInv, WorkerInv, SameOnLists
    <3> QED BY <3>1, WorkerFrame
  <2> QED BY <2>1, <2>2
<1>10. RunInv'
  <2> SUFFICES ASSUME NEW d \in Clients PROVE RunOK(d)'
    BY DEF RunInv
  <2>0. \A e \in Clients : rworker[e] # w
    <3>1. ASSUME NEW e \in Clients, rworker[e] = w PROVE FALSE
      <4>1. RunOK(e)
        BY DEF IndInv, RunInv
      <4> QED BY <1>1, <3>1, <4>1, NullAssumption DEF RunOK
    <3> QED BY <3>1
  <2>1. CASE d = c
    BY <1>2, <1>3, <1>5, <1>6, <2>0, <2>1 DEF RunOK
  <2>2. CASE d # c
    <3>1. RunOK(d) /\ rpc'[d] = rpc[d] /\ rworker'[d] = rworker[d] /\ rtask'[d] = rtask[d]
      BY <1>6, <2>2 DEF IndInv, RunInv
    <3>2. CASE rpc[d] = "none"
      BY <3>1, <3>2 DEF RunOK
    <3>3. CASE rpc[d] # "none"
      <4>1. rworker[d] \in Workers /\ rworker[d] # w /\ SameWorker(rworker[d])
        BY <1>5, <2>0, <3>1, <3>3 DEF RunOK
      <4>2. \A e \in Clients \ {d} : rworker'[e] # rworker[d]
        BY <1>6, <3>1, <3>3, <4>1 DEF RunOK
      <4> QED BY <1>2, <1>3, <3>1, <3>3, <4>1, <4>2 DEF RunOK, SameWorker
    <3> QED BY <3>2, <3>3
  <2> QED BY <2>1, <2>2
<1>11. CountersAgree'
  <2>1. Len(idle_workers) = 0 /\ Len(idle_workers') = 0 /\ Len(all_workers) \in Nat
    BY <1>3, EmptyList DEF IndInv, TypeOK
  <2>2. /\ count_started' = count_started + 1 /\ count_stopped' = count_stopped
        /\ count_idle' = count_idle /\ count_running' = count_running + 1
    BY DEF RunNewWorker
  <2> QED BY <1>2, <2>1, <2>2 DEF IndInv, TypeOK, CountersAgree
<1> QED BY <1>4, <1>7, <1>8, <1>9, <1>10, <1>11 DEF IndInv

LEMMA RunIdleWorkerStep ==
  ASSUME IndInv, NEW c \in Clients, NEW t \in Tasks, RunIdleWorker(c, t),
         NEW w \in Range(idle_workers), w = Head(idle_workers), w \in Workers,
         Removed(idle_workers, w, idle_workers')
  PROVE  IndInv'
<1>1. /\ idle_workers' \in Seq(Workers) /\ Len(idle_workers') = Len(idle_workers) - 1
      /\ Len(idle_workers) \in Nat /\ Len(idle_workers) >= 1
      /\ w \in Range(idle_workers) /\ w \in Workers
      /\ Range(idle_workers') = Range(idle_workers) \ {w}
      /\ IsInjective(idle_workers')
  BY DEF Removed, IndInv, TypeOK
<1>2. /\ Range(idle_workers) \subseteq Range(all_workers) /\ all_workers' = all_workers
      /\ saved' = saved /\ spc' = spc /\ shutting_down' = shutting_down
      /\ ~shutting_down /\ UNCHANGED workerVars
  BY DEF IndInv, ListInv, RunIdleWorker
<1>3. /\ rpc'[c] = "SetTask" /\ rworker'[c] = w /\ rtask'[c] = t /\ rpc[c] = "none"
      /\ \A d \in Clients \ {c} :
           rpc'[d] = rpc[d] /\ rworker'[d] = rworker[d] /\ rtask'[d] = rtask[d]
  BY DEF IndInv, TypeOK, RunIdleWorker
<1>4. /\ count_idle' = count_idle - 1 /\ count_running' = count_running + 1
      /\ count_started' = count_started /\ count_stopped' = count_stopped
  BY DEF RunIdleWorker
<1>5. CountersAgree'
  <2>1. Len(all_workers) \in Nat
    BY DEF IndInv, TypeOK
  <2> QED BY <1>1, <1>2, <1>4, <2>1 DEF IndInv, TypeOK, CountersAgree
<1>6. TypeOK'
  <2>1. count_idle' \in Nat /\ count_running' \in Nat
    BY <1>1, <1>4 DEF IndInv, TypeOK, CountersAgree
  <2>2. rpc' \in [Clients -> RunPCs]
    BY DEF IndInv, TypeOK, RunPCs, RunIdleWorker
  <2>3. /\ rworker' \in [Clients -> Workers \cup {NoWorker}]
        /\ rtask' \in [Clients -> Tasks \cup {NoTask}]
    BY <1>1 DEF IndInv, TypeOK, RunIdleWorker
  <2>4. life' \in [Tasks -> Lives]
    BY DEF IndInv, TypeOK, Lives, RunIdleWorker
  <2> QED BY <1>1, <1>2, <1>4, <2>1, <2>2, <2>3, <2>4 DEF IndInv, TypeOK
<1>7. ListInv' /\ PhaseInv'
  BY <1>1, <1>2 DEF IndInv, ListInv, PhaseInv
<1>8. WorkerInv'
  BY <1>1, <1>2 DEF IndInv, WorkerInv, WorkerOK, Alive, HoldsMonitor
<1>9. RunInv'
  <2> SUFFICES ASSUME NEW d \in Clients PROVE RunOK(d)'
    BY DEF RunInv
  <2>0. \A e \in Clients : rworker[e] # w
    <3>1. ASSUME NEW e \in Clients, rworker[e] = w PROVE FALSE
      <4>1. RunOK(e)
        BY DEF IndInv, RunInv
      <4> QED BY <1>1, <3>1, <4>1, NullAssumption DEF RunOK
    <3> QED BY <3>1
  <2>1. CASE d = c
    <3>1. WorkerOK(w)
      BY <1>1 DEF IndInv, WorkerInv
    <3>2. wpc[w] \in {"waiting", "ReleaseIdleWorker"} /\ task[w] = NoTask
      BY <1>1, <3>1 DEF WorkerOK
    <3> QED BY <1>1, <1>2, <1>3, <2>0, <2>1, <3>2 DEF RunOK
  <2>2. CASE d # c
    <3>1. RunOK(d) /\ rpc'[d] = rpc[d] /\ rworker'[d] = rworker[d] /\ rtask'[d] = rtask[d]
      BY <1>3, <2>2 DEF IndInv, RunInv
    <3>2. CASE rpc[d] = "none"
      BY <3>1, <3>2 DEF RunOK
    <3>3. CASE rpc[d] # "none"
      <4>1. \A e \in Clients \ {d} : rworker'[e] # rworker[d]
        BY <1>3, <2>0, <3>1, <3>3 DEF RunOK
      <4> QED BY <1>1, <1>2, <2>0, <3>1, <3>3, <4>1 DEF RunOK
    <3> QED BY <3>2, <3>3
  <2> QED BY <2>1, <2>2
<1> QED BY <1>5, <1>6, <1>7, <1>8, <1>9 DEF IndInv

\* What the two actions that end a call of Run, or its first half, share:
\* only the caller c and the worker it has chosen change.
LEMMA CallerAlone ==
  ASSUME IndInv, TypeOK', NEW c \in Clients, rpc[c] # "none",
         NEW w \in Workers, w = rworker[c],
         UNCHANGED <<listVars, countVars, downVars>>,
         \A v \in Workers \ {w} : SameWorker(v),
         \A d \in Clients \ {c} :
           rpc'[d] = rpc[d] /\ rworker'[d] = rworker[d] /\ rtask'[d] = rtask[d],
         rworker'[c] \in {NoWorker, w},
         WorkerOK(w)', RunOK(c)'
  PROVE  IndInv'
<1>1. RunOK(c)
  BY DEF IndInv, RunInv
<1>2. \A v \in Workers : SameOnLists(v)
  BY DEF SameOnLists
<1>3. WorkerInv'
  <2> SUFFICES ASSUME NEW v \in Workers, v # w PROVE WorkerOK(v)'
    BY DEF WorkerInv
  <2>1. WorkerOK(v) /\ SameWorker(v) /\ SameOnLists(v)
    BY <1>2 DEF IndInv, WorkerInv
  <2> QED BY <2>1, WorkerFrame
<1>4. RunInv'
  <2> SUFFICES ASSUME NEW d \in Clients, d # c PROVE RunOK(d)'
    BY DEF RunInv
  <2>1. RunOK(d)
    BY DEF IndInv, RunInv
  <2>2. CASE rpc[d] = "none"
    BY <2>1, <2>2 DEF RunOK
  <2>3. CASE rpc[d] # "none"
    <3>1. rworker[d] \in Workers /\ rworker[d] # w
      BY <1>1, <2>1, <2>3 DEF RunOK
    <3>2. \A e \in Clients \ {d} : rworker'[e] # rworker[d]
      BY <2>1, <2>3, <3>1, NullAssumption DEF RunOK
    <3>3. wpc'[rworker[d]] = wpc[rworker[d]] /\ task'[rworker[d]] = task[rworker[d]]
      BY <3>1 DEF SameWorker
    <3> QED BY <2>1, <2>3, <3>1, <3>2, <3>3 DEF RunOK
  <2> QED BY <2>2, <2>3
<1>5. PhaseInv'
  <2>1. spc = "none"
    BY DEF IndInv, PhaseInv
  <2> QED BY <2>1 DEF IndInv, PhaseInv
<1>6. ListInv' /\ CountersAgree'
  BY DEF IndInv, ListInv, CountersAgree
<1> QED BY <1>3, <1>4, <1>5, <1>6 DEF IndInv

LEMMA SetTaskStep ==
  ASSUME IndInv, NEW c \in Clients, SetTask(c)
  PROVE  IndInv'
<1>0. PICK w \in Workers : w = rworker[c]
  BY DEF IndInv, RunInv, RunOK, SetTask
<1>1. /\ RunOK(c) /\ rtask[c] \in Tasks
      /\ w \notin Range(idle_workers) /\ WorkerOK(w)
      /\ rpc[c] = "SetTask" => wpc[w] = "waiting"
      /\ rpc[c] = "SetFirstTask" => wpc[w] = "allocated"
      /\ rpc[c] \in {"SetTask", "SetFirstTask"}
  <2>1. RunOK(c)
    BY DEF IndInv, RunInv
  <2>0. rpc[c] \in {"SetTask", "SetFirstTask"} /\ ~HoldsMonitor(w)
    BY <1>0, ZenonT(30) DEF SetTask
  <2>2. rtask[c] \in Tasks
    BY <2>0, <2>1 DEF RunOK
  <2>3. WorkerOK(w)
    BY DEF IndInv, WorkerInv
  <2> QED BY <1>0, <2>0, <2>1, <2>2, <2>3 DEF RunOK, HoldsMonitor
<1>2. /\ task'[w] = rtask[c] /\ wpc' = wpc /\ pool' = pool /\ owned' = owned
      /\ running' = running
      /\ \A v \in Workers \ {w} : SameWorker(v)
  BY <1>0, <1>1 DEF IndInv, TypeOK, SetTask, SameWorker
<1>3. UNCHANGED <<listVars, countVars, downVars, life>>
  BY ZenonT(30) DEF SetTask
<1>4. CASE rpc[c] = "SetFirstTask"
  <2>1. rpc' = [rpc EXCEPT ![c] = "StartThread"] /\ rworker' = rworker /\ rtask' = rtask
    BY <1>4, ZenonT(30) DEF SetTask
  <2>2. TypeOK'
    <3>1. rpc' \in [Clients -> RunPCs]
      BY <2>1 DEF IndInv, TypeOK, RunPCs
    <3>2. task' \in [Workers -> Tasks \cup {NoTask}] /\ notified' \in [Workers -> BOOLEAN]
      BY <1>0, <1>1 DEF IndInv, TypeOK, SetTask
    <3> QED BY <1>2, <1>3, <2>1, <3>1, <3>2 DEF IndInv, TypeOK
  <2>3. /\ rpc'[c] = "StartThread" /\ rworker'[c] = w /\ rtask'[c] = rtask[c]
        /\ \A d \in Clients \ {c} : rpc'[d] = rpc[d]
    BY <1>0, <2>1 DEF IndInv, TypeOK
  <2>4. RunOK(c)'
    BY <1>0, <1>1, <1>2, <1>3, <1>4, <2>1, <2>3, NullAssumption DEF RunOK
  <2>5. WorkerOK(w)'
    BY <1>1, <1>2, <1>3, <1>4, NullAssumption, ZenonT(30) DEF WorkerOK, Alive, HoldsMonitor
  <2> QED BY <1>0, <1>2, <1>3, <1>4, <2>1, <2>2, <2>3, <2>4, <2>5, CallerAlone
<1>5. CASE rpc[c] = "SetTask"
  <2>1. ReturnFromRun(c)
    BY <1>5, ZenonT(30) DEF SetTask
  <2>2. TypeOK'
    <3>1. /\ rpc' \in [Clients -> RunPCs]
          /\ rworker' \in [Clients -> Workers \cup {NoWorker}]
          /\ rtask' \in [Clients -> Tasks \cup {NoTask}]
      BY <2>1 DEF IndInv, TypeOK, RunPCs, ReturnFromRun
    <3>2. task' \in [Workers -> Tasks \cup {NoTask}] /\ notified' \in [Workers -> BOOLEAN]
      BY <1>0, <1>1 DEF IndInv, TypeOK, SetTask
    <3> QED BY <1>2, <1>3, <3>1, <3>2 DEF IndInv, TypeOK
  <2>3. /\ rpc'[c] = "none" /\ rworker'[c] = NoWorker
        /\ \A d \in Clients \ {c} :
             rpc'[d] = rpc[d] /\ rworker'[d] = rworker[d] /\ rtask'[d] = rtask[d]
    BY <2>1 DEF IndInv, TypeOK, ReturnFromRun
  <2>4. RunOK(c)'
    BY <2>3 DEF RunOK
  <2>5. WorkerOK(w)'
    BY <1>1, <1>2, <1>3, <1>5, ZenonT(30) DEF WorkerOK, Alive, HoldsMonitor
  <2> QED BY <1>0, <1>2, <1>3, <1>5, <2>2, <2>3, <2>4, <2>5, CallerAlone, ZenonT(30)
<1> QED BY <1>1, <1>4, <1>5

LEMMA StartThreadStep ==
  ASSUME IndInv, NEW c \in Clients, StartThread(c)
  PROVE  IndInv'
<1>0. PICK w \in Workers : w = rworker[c]
  BY ZenonT(30) DEF IndInv, RunInv, RunOK, StartThread
<1>1. /\ RunOK(c) /\ w \notin Range(idle_workers) /\ WorkerOK(w)
      /\ wpc[w] = "allocated" /\ task[w] # NoTask /\ rpc[c] = "StartThread"
  BY <1>0 DEF StartThread, IndInv, RunInv, RunOK, WorkerInv
<1>2. /\ wpc'[w] = "start" /\ task' = task /\ pool' = pool /\ owned' = owned
      /\ running' = running
      /\ \A v \in Workers \ {w} : SameWorker(v)
  BY <1>0, <1>1 DEF IndInv, TypeOK, StartThread, SameWorker
<1>3. UNCHANGED <<listVars, countVars, downVars, life, notified>>
  BY DEF StartThread
<1>4. TypeOK'
  <2>1. /\ rpc' \in [Clients -> RunPCs]
        /\ rworker' \in [Clients -> Workers \cup {NoWorker}]
        /\ rtask' \in [Clients -> Tasks \cup {NoTask}]
    BY DEF IndInv, TypeOK, RunPCs, ReturnFromRun, StartThread
  <2>2. wpc' \in [Workers -> WorkerPCs]
    BY ZenonT(30) DEF IndInv, TypeOK, WorkerPCs, StartThread
  <2> QED BY <1>2, <1>3, <2>1, <2>2 DEF IndInv, TypeOK
<1>5. /\ rpc'[c] = "none" /\ rworker'[c] = NoWorker
      /\ \A d \in Clients \ {c} :
           rpc'[d] = rpc[d] /\ rworker'[d] = rworker[d] /\ rtask'[d] = rtask[d]
  BY DEF IndInv, TypeOK, ReturnFromRun, StartThread
<1>6. RunOK(c)'
  BY <1>5 DEF RunOK
<1>7. WorkerOK(w)'
  BY <1>1, <1>2, <1>3, ZenonT(30) DEF WorkerOK, Alive, HoldsMonitor
<1> QED BY <1>0, <1>1, <1>2, <1>3, <1>4, <1>5, <1>6, <1>7, CallerAlone

\* A worker that a call of Run has chosen is where the call expects it: the
\* call needs no look while the worker stays there and keeps its task_.
LEMMA ChosenWorker ==
  ASSUME IndInv, NEW w \in Workers, NEW c \in Clients,
         rpc[c] # "none", rworker[c] = w
  PROVE  /\ wpc[w] \in {"allocated", "waiting", "ReleaseIdleWorker"}
         /\ wpc[w] = "waiting" => task[w] = NoTask /\ rpc[c] = "SetTask"
         /\ wpc[w] = "ReleaseIdleWorker" => task[w] = NoTask /\ rpc[c] = "SetTask"
         /\ w \in Range(all_workers) /\ w \notin Range(idle_workers)
<1>1. RunOK(c) /\ rpc[c] \in RunPCs
  BY DEF IndInv, RunInv, TypeOK
<1>2. rpc[c] \in {"SetTask", "SetFirstTask", "StartThread"}
  BY <1>1 DEF RunPCs
<1> QED BY <1>1, <1>2 DEF RunOK

LEMMA EnterLoopStep ==
  ASSUME IndInv, NEW w \in Workers, EnterLoop(w)
  PROVE  IndInv'
<1>1. WorkerOK(w) /\ wpc[w] = "start"
  BY DEF IndInv, WorkerInv, EnterLoop
<1>2. task[w] \in Tasks /\ task[w] # NoTask
  BY <1>1 DEF WorkerOK, IndInv, TypeOK
<1>3. UNCHANGED <<listVars, countVars, runVars, downVars, pool, owned, notified>>
  BY DEF EnterLoop
<1>4. /\ wpc'[w] = "running" /\ task'[w] = NoTask /\ running'[w] = task[w]
      /\ \A v \in Workers \ {w} : SameWorker(v)
  BY <1>3 DEF IndInv, TypeOK, EnterLoop, TakeTask, SameWorker
<1>5. TypeOK'
  <2>1. wpc' \in [Workers -> WorkerPCs]
    BY ZenonT(30) DEF IndInv, TypeOK, WorkerPCs, EnterLoop
  <2>2. /\ task' \in [Workers -> Tasks \cup {NoTask}]
        /\ running' \in [Workers -> Tasks \cup {NoTask}]
    BY DEF IndInv, TypeOK, EnterLoop, TakeTask
  <2>3. life' \in [Tasks -> Lives]
    BY <1>2 DEF IndInv, TypeOK, EnterLoop, TakeTask, Lives
  <2> QED BY <1>3, <2>1, <2>2, <2>3 DEF IndInv, TypeOK
<1>6. WorkerOK(w)'
  BY <1>1, <1>2, <1>3, <1>4, ZenonT(30) DEF WorkerOK, Alive, HoldsMonitor
<1>7. \A c \in Clients : ~(rpc[c] # "none" /\ rworker[c] = w)
  BY <1>1, ChosenWorker
<1> QED BY <1>3, <1>4, <1>5, <1>6, <1>7, WorkerAlone

LEMMA FinishTaskStep ==
  ASSUME IndInv, NEW w \in Workers, FinishTask(w)
  PROVE  IndInv'
<1>1. WorkerOK(w) /\ wpc[w] = "running"
  BY DEF IndInv, WorkerInv, FinishTask
<1>2. running[w] \in Tasks
  BY <1>1 DEF WorkerOK, IndInv, TypeOK
<1>3. UNCHANGED <<listVars, countVars, runVars, downVars, pool, task, owned, notified>>
  BY DEF FinishTask
<1>4. /\ pool[w] => wpc'[w] = "SetIdle"
      /\ ~pool[w] => wpc'[w] = "exiting"
      /\ \A v \in Workers \ {w} : SameWorker(v)
  BY <1>3 DEF IndInv, TypeOK, FinishTask, SameWorker
<1>5. TypeOK'
  <2>1. wpc' \in [Workers -> WorkerPCs]
    <3>1. (IF pool[w] THEN "SetIdle" ELSE "exiting") \in WorkerPCs
      BY DEF WorkerPCs
    <3> QED BY <3>1, ZenonT(30) DEF IndInv, TypeOK, FinishTask
  <2>2. running' \in [Workers -> Tasks \cup {NoTask}]
    BY DEF IndInv, TypeOK, FinishTask
  <2>3. life' \in [Tasks -> Lives]
    BY <1>2 DEF IndInv, TypeOK, FinishTask, Lives
  <2> QED BY <1>3, <2>1, <2>2, <2>3 DEF IndInv, TypeOK
<1>6. WorkerOK(w)'
  <2>1. CASE pool[w]
    BY <1>1, <1>3, <1>4, <2>1, ZenonT(30) DEF WorkerOK, Alive, HoldsMonitor
  <2>2. CASE ~pool[w]
    BY <1>1, <1>3, <1>4, <2>2, ZenonT(30) DEF WorkerOK, Alive, HoldsMonitor
  <2> QED BY <2>1, <2>2
<1>7. \A c \in Clients : ~(rpc[c] # "none" /\ rworker[c] = w)
  BY <1>1, ChosenWorker
<1> QED BY <1>3, <1>4, <1>5, <1>6, <1>7, WorkerAlone

LEMMA SetIdleStep ==
  ASSUME IndInv, NEW w \in Workers, SetIdle(w),
         ~shutting_down => /\ Pushed(idle_workers, w, idle_workers')
                           /\ Len(idle_workers') <= Len(all_workers)
  PROVE  IndInv'
<1>1. WorkerOK(w) /\ wpc[w] = "SetIdle" /\ pool[w] /\ task[w] = NoTask
  BY ZenonT(30) DEF IndInv, WorkerInv, SetIdle, WorkerOK, HoldsMonitor
<1>2. /\ shutting_down' = shutting_down /\ all_workers' = all_workers
      /\ UNCHANGED <<pool, task, owned, running, notified, runVars, downVars, life,
                     count_started, count_stopped>>
  BY DEF SetIdle
<1>3. /\ wpc'[w] = "waiting" /\ \A v \in Workers \ {w} : SameWorker(v)
  BY <1>2 DEF IndInv, TypeOK, SetIdle, SameWorker
<1>4. wpc' \in [Workers -> WorkerPCs]
  BY ZenonT(30) DEF IndInv, TypeOK, WorkerPCs, SetIdle
<1>5. \A c \in Clients : ~(rpc[c] # "none" /\ rworker[c] = w)
  BY <1>1, ChosenWorker
<1>6. CASE shutting_down
  <2>1. UNCHANGED <<listVars, countVars>>
    BY <1>2, <1>6 DEF SetIdle
  <2>2. TypeOK'
    BY <1>2, <1>4, <2>1 DEF IndInv, TypeOK
  <2>3. WorkerOK(w)'
    BY <1>1, <1>2, <1>3, <2>1, ZenonT(30) DEF WorkerOK, Alive, HoldsMonitor
  <2> QED BY <1>2, <1>3, <1>5, <2>1, <2>2, <2>3, WorkerAlone, ZenonT(30)
<1>7. CASE ~shutting_down
  <2>1. /\ idle_workers' \in Seq(Workers) /\ Len(idle_workers') = Len(idle_workers) + 1
        /\ Range(idle_workers') = {w} \cup Range(idle_workers)
        /\ IsInjective(idle_workers') /\ Len(idle_workers') <= Len(all_workers)
    BY <1>7 DEF Pushed
  <2>2. count_idle' = count_idle + 1 /\ count_running' = count_running - 1
    BY <1>7 DEF SetIdle
  <2>3. spc = "none" /\ saved = <<>>
    BY <1>7 DEF IndInv, PhaseInv
  <2>4. w \in Range(all_workers)
    BY <1>1, <2>3, EmptyList DEF WorkerOK, Alive
  <2>5. CountersAgree' /\ count_idle' \in Nat /\ count_running' \in Nat
    <3>1. /\ Len(all_workers) \in Nat /\ Len(idle_workers) \in Nat
          /\ count_idle = Len(idle_workers)
          /\ count_running = Len(all_workers) - Len(idle_workers)
          /\ count_started - count_stopped = Len(all_workers)
      BY DEF IndInv, TypeOK, CountersAgree
    <3> QED BY <1>2, <2>1, <2>2, <3>1 DEF CountersAgree
  <2>6. TypeOK'
    BY <1>2, <1>4, <2>1, <2>5 DEF IndInv, TypeOK
  <2>7. ListInv' /\ PhaseInv'
    BY <1>2, <1>7, <2>1, <2>3, <2>4 DEF IndInv, ListInv, PhaseInv
  <2>8. WorkerInv'
    <3> SUFFICES ASSUME NEW v \in Workers PROVE WorkerOK(v)'
      BY DEF WorkerInv
    <3>1. CASE v = w
      BY <1>1, <1>2, <1>3, <2>4, <3>1, ZenonT(30) DEF WorkerOK, Alive, HoldsMonitor
    <3>2. CASE v # w
      <4>1. WorkerOK(v) /\ SameWorker(v) /\ SameOnLists(v)
        BY <1>2, <1>3, <2>1, <3>2 DEF IndInv, WorkerInv, SameOnLists
      <4> QED BY <4>1, WorkerFrame
    <3> QED BY <3>1, <3>2
  <2>9. RunInv'
    <3> SUFFICES ASSUME NEW c \in Clients PROVE RunOK(c)'
      BY DEF RunInv
    <3>1. RunOK(c)
      BY DEF IndInv, RunInv
    <3>2. ASSUME rpc[c] # "none"
          PROVE  SameWorker(rworker[c]) /\ SameOnLists(rworker[c])
      <4>1. rworker[c] \in Workers \ {w}
        BY <1>5, <3>1, <3>2 DEF RunOK
      <4> QED BY <1>2, <1>3, <2>1, <4>1 DEF SameOnLists
    <3> QED BY <1>2, <3>1, <3>2, RunFrame
  <2> QED BY <2>5, <2>6, <2>7, <2>8, <2>9 DEF IndInv
<1> QED BY <1>6, <1>7

LEMMA WakeStep ==
  ASSUME IndInv, NEW w \in Workers, NEW why, Wake(w, why)
  PROVE  IndInv'
<1>1. WorkerOK(w) /\ wpc[w] = "waiting"
  BY DEF IndInv, WorkerInv, Wake
<1>2. UNCHANGED <<listVars, countVars, runVars, downVars, pool, owned>>
  BY DEF Wake
<1>3. /\ task[w] # NoTask => AfterWait(w, why) = "running"
      /\ task[w] = NoTask => AfterWait(w, why) \in {"exiting", "ReleaseIdleWorker", "waiting"}
      /\ task[w] = NoTask /\ pool[w] =>
           AfterWait(w, why) \in {"ReleaseIdleWorker", "waiting"}
      /\ task[w] = NoTask /\ ~pool[w] => AfterWait(w, why) = "exiting"
  BY DEF AfterWait
<1>4. AfterWait(w, why) \in WorkerPCs
  BY <1>3 DEF WorkerPCs
<1>5. wpc' = [wpc EXCEPT ![w] = AfterWait(w, why)]
  BY DEF Wake
<1>6. wpc' \in [Workers -> WorkerPCs] /\ notified' \in [Workers -> BOOLEAN]
  <2>1. wpc' \in [Workers -> WorkerPCs]
    BY <1>4, <1>5, ZenonT(30) DEF IndInv, TypeOK
  <2>2. notified' \in [Workers -> BOOLEAN]
    BY ZenonT(30) DEF IndInv, TypeOK, Wake
  <2> QED BY <2>1, <2>2
<1>7. wpc'[w] = AfterWait(w, why) /\ \A v \in Workers \ {w} : wpc'[v] = wpc[v]
  BY <1>5 DEF IndInv, TypeOK
<1>8. CASE task[w] # NoTask
  <2>1. TakeTask(w) /\ wpc'[w] = "running" /\ task[w] \in Tasks
    BY <1>3, <1>7, <1>8 DEF Wake, IndInv, TypeOK
  <2>2. /\ task'[w] = NoTask /\ running'[w] = task[w]
        /\ \A v \in Workers \ {w} : SameWorker(v)
    BY <1>2, <1>7, <2>1 DEF IndInv, TypeOK, TakeTask, SameWorker
  <2>3. TypeOK'
    <3>1. /\ task' \in [Workers -> Tasks \cup {NoTask}]
          /\ running' \in [Workers -> Tasks \cup {NoTask}]
      BY <2>1 DEF IndInv, TypeOK, TakeTask
    <3>2. life' \in [Tasks -> Lives]
      BY <2>1 DEF IndInv, TypeOK, TakeTask, Lives
    <3> QED BY <1>2, <1>6, <3>1, <3>2 DEF IndInv, TypeOK
  <2>4. WorkerOK(w)'
    BY <1>1, <1>2, <1>8, <2>1, <2>2, ZenonT(30) DEF WorkerOK, Alive, HoldsMonitor
  <2>5. \A c \in Clients : ~(rpc[c] # "none" /\ rworker[c] = w)
    BY <1>1, <1>8, ChosenWorker
  <2> QED BY <1>2, <2>2, <2>3, <2>4, <2>5, WorkerAlone
<1>9. CASE task[w] = NoTask
  <2>1. UNCHANGED <<running, task, life>>
    BY <1>3, <1>9 DEF Wake
  <2>2. \A v \in Workers \ {w} : SameWorker(v)
    BY <1>2, <1>7, <2>1 DEF SameWorker
  <2>3. TypeOK'
    BY <1>2, <1>6, <2>1 DEF IndInv, TypeOK
  <2>4. WorkerOK(w)'
    <3>1. CASE pool[w]
      <4>1. wpc'[w] \in {"ReleaseIdleWorker", "waiting"}
        BY <1>3, <1>7, <1>9, <3>1
      <4> QED BY <1>1, <1>2, <1>9, <2>1, <3>1, <4>1, ZenonT(30) DEF WorkerOK, Alive, HoldsMonitor
    <3>2. CASE ~pool[w]
      <4>1. wpc'[w] = "exiting"
        BY <1>3, <1>7, <1>9, <3>2
      <4>2. w \notin Range(all_workers) /\ w \notin Range(saved)
        BY <1>1, <3>2 DEF WorkerOK
      <4>3. w \notin Range(idle_workers)
        BY <4>2 DEF IndInv, ListInv
      <4> QED BY <1>1, <1>2, <1>9, <2>1, <3>2, <4>1, <4>2, <4>3, ZenonT(30)
              DEF WorkerOK, Alive, HoldsMonitor
    <3> QED BY <3>1, <3>2
  <2>5. ASSUME NEW c \in Clients, rpc[c] # "none", rworker[c] = w PROVE RunOK(c)'
    <3>1. RunOK(c) /\ rpc[c] = "SetTask" /\ w \in Range(all_workers)
      BY <1>1, <2>5, ChosenWorker, ZenonT(30) DEF IndInv, RunInv
    <3>2. pool[w]
      BY <1>1, <3>1 DEF WorkerOK
    <3>3. wpc'[w] \in {"ReleaseIdleWorker", "waiting"}
      BY <1>3, <1>7, <1>9, <3>2
    <3> QED BY <1>2, <2>1, <2>5, <3>1, <3>3 DEF RunOK
  <2> QED BY <1>2, <2>2, <2>3, <2>4, <2>5, WorkerAlone
<1> QED BY <1>8, <1>9

LEMMA DeleteWorkerStep ==
  ASSUME IndInv, NEW w \in Workers, DeleteWorker(w)
  PROVE  IndInv'
<1>1. WorkerOK(w) /\ wpc[w] = "exiting"
  BY DEF IndInv, WorkerInv, DeleteWorker
<1>2. UNCHANGED <<listVars, countVars, runVars, downVars, pool, task, owned, running,
                  notified, life>>
  BY DEF DeleteWorker
<1>3. wpc'[w] = "deleted" /\ \A v \in Workers \ {w} : SameWorker(v)
  BY <1>2 DEF IndInv, TypeOK, DeleteWorker, SameWorker
<1>4. TypeOK'
  <2>1. wpc' \in [Workers -> WorkerPCs]
    BY ZenonT(30) DEF IndInv, TypeOK, WorkerPCs, DeleteWorker
  <2> QED BY <1>2, <2>1 DEF IndInv, TypeOK
<1>5. WorkerOK(w)'
  BY <1>1, <1>2, <1>3, ZenonT(30) DEF WorkerOK, Alive, HoldsMonitor
<1>6. \A c \in Clients : ~(rpc[c] # "none" /\ rworker[c] = w)
  BY <1>1, ChosenWorker
<1> QED BY <1>2, <1>3, <1>4, <1>5, <1>6, WorkerAlone

LEMMA ReleaseIdleWorkerStep ==
  ASSUME IndInv, NEW w \in Workers, ReleaseIdleWorker(w),
         MayRelease(w) => /\ Removed(idle_workers, w, idle_workers')
                          /\ Removed(all_workers, w, all_workers')
  PROVE  IndInv'
<1>1. WorkerOK(w) /\ wpc[w] = "ReleaseIdleWorker"
  BY DEF IndInv, WorkerInv, ReleaseIdleWorker
<1>2. UNCHANGED <<shutting_down, count_started, count_running, task, running, notified,
                  runVars, downVars, life>>
  BY DEF ReleaseIdleWorker
<1>3. CASE MayRelease(w)
  <2>1. /\ idle_workers' \in Seq(Workers) /\ Len(idle_workers') = Len(idle_workers) - 1
        /\ Range(idle_workers') = Range(idle_workers) \ {w}
        /\ IsInjective(idle_workers') /\ Len(idle_workers) >= 1
        /\ all_workers' \in Seq(Workers) /\ Len(all_workers') = Len(all_workers) - 1
        /\ Range(all_workers') = Range(all_workers) \ {w}
        /\ IsInjective(all_workers')
    BY <1>3 DEF Removed
  <2>2. /\ count_stopped' = count_stopped + 1 /\ count_idle' = count_idle - 1
        /\ ~shutting_down /\ w \in Range(idle_workers)
    BY <1>3 DEF ReleaseIdleWorker, MayRelease
  <2>3. spc = "none" /\ saved = <<>> /\ Range(saved) = {}
    BY <2>2, EmptyList DEF IndInv, PhaseInv
  <2>4. /\ wpc'[w] = "exiting" /\ owned'[w] = FALSE
        /\ \A v \in Workers \ {w} : SameWorker(v)
    BY <1>2, <1>3 DEF IndInv, TypeOK, ReleaseIdleWorker, SameWorker
  <2>5. CountersAgree' /\ count_idle' \in Nat /\ count_stopped' \in Nat
    <3>1. /\ Len(all_workers) \in Nat /\ Len(idle_workers) \in Nat
          /\ count_idle = Len(idle_workers) /\ count_stopped \in Nat
          /\ count_running = Len(all_workers) - Len(idle_workers)
          /\ count_started - count_stopped = Len(all_workers) /\ count_started \in Nat
      BY DEF IndInv, TypeOK, CountersAgree
    <3> QED BY <1>2, <2>1, <2>2, <3>1 DEF CountersAgree
  <2>6. TypeOK'
    <3>1. wpc' \in [Workers -> WorkerPCs]
      <4>1. wpc' = [wpc EXCEPT ![w] = "exiting"] /\ "exiting" \in WorkerPCs
        BY <1>3 DEF ReleaseIdleWorker, WorkerPCs
      <4> QED BY <4>1, ZenonT(30) DEF IndInv, TypeOK
    <3>2. owned' \in [Workers -> BOOLEAN]
      BY <1>3, ZenonT(30) DEF IndInv, TypeOK, ReleaseIdleWorker
    <3>3. pool' \in [Workers -> BOOLEAN]
      BY <1>3, ZenonT(30) DEF IndInv, TypeOK, ReleaseIdleWorker
    <3> QED BY <1>2, <2>1, <2>5, <3>1, <3>2, <3>3 DEF IndInv, TypeOK
  <2>7. ListInv' /\ PhaseInv'
    BY <1>2, <2>1, <2>2, <2>3 DEF IndInv, ListInv, PhaseInv
  <2>8. WorkerInv'
    <3> SUFFICES ASSUME NEW v \in Workers PROVE WorkerOK(v)'
      BY DEF WorkerInv
    <3>1. CASE v = w
      <4>1. /\ w \notin Range(all_workers') /\ w \notin Range(idle_workers')
            /\ w \notin Range(saved')
        BY <1>2, <2>1, <2>3
      <4> QED BY <2>4, <3>1, <4>1, ZenonT(30) DEF WorkerOK, Alive, HoldsMonitor
    <3>2. CASE v # w
      <4>1. WorkerOK(v) /\ SameWorker(v) /\ SameOnLists(v)
        BY <1>2, <2>1, <2>4, <3>2 DEF IndInv, WorkerInv, SameOnLists
      <4> QED BY <4>1, WorkerFrame
    <3> QED BY <3>1, <3>2
  <2>9. RunInv'
    <3> SUFFICES ASSUME NEW c \in Clients PROVE RunOK(c)'
      BY DEF RunInv
    <3>1. RunOK(c)
      BY DEF IndInv, RunInv
    <3>2. ASSUME rpc[c] # "none"
          PROVE  SameWorker(rworker[c]) /\ SameOnLists(rworker[c])
      <4>1. rworker[c] \in Workers \ {w}
        BY <2>2, <3>1, <3>2 DEF RunOK
      <4> QED BY <1>2, <2>1, <2>4, <4>1, ZenonT(30) DEF SameOnLists
    <3> QED BY <1>2, <3>1, <3>2, RunFrame, ZenonT(30)
  <2> QED BY <2>5, <2>6, <2>7, <2>8, <2>9 DEF IndInv
<1>4. CASE ~MayRelease(w)
  <2>1. UNCHANGED <<listVars, countVars, pool, owned>>
    BY <1>2, <1>4 DEF ReleaseIdleWorker
  <2>2. wpc'[w] = "waiting" /\ \A v \in Workers \ {w} : SameWorker(v)
    BY <1>2, <1>4, <2>1 DEF IndInv, TypeOK, ReleaseIdleWorker, SameWorker
  <2>3. TypeOK'
    <3>1. wpc' \in [Workers -> WorkerPCs]
      <4>1. wpc' = [wpc EXCEPT ![w] = "waiting"] /\ "waiting" \in WorkerPCs
        BY <1>4 DEF ReleaseIdleWorker, WorkerPCs
      <4> QED BY <4>1, ZenonT(30) DEF IndInv, TypeOK
    <3> QED BY <1>2, <2>1, <3>1 DEF IndInv, TypeOK
  <2>4. WorkerOK(w)'
    BY <1>1, <1>2, <2>1, <2>2, ZenonT(30) DEF WorkerOK, Alive, HoldsMonitor
  <2>5. ASSUME NEW c \in Clients, rpc[c] # "none", rworker[c] = w PROVE RunOK(c)'
    <3>1. RunOK(c) /\ rpc[c] = "SetTask"
      BY <1>1, <2>5, ChosenWorker, ZenonT(30) DEF IndInv, RunInv
    <3> QED BY <1>2, <2>1, <2>2, <2>5, <3>1, ZenonT(30) DEF RunOK
  <2> QED BY <1>2, <2>1, <2>2, <2>3, <2>4, <2>5, WorkerAlone, ZenonT(30)
<1> QED BY <1>3, <1>4

LEMMA ShutdownStep ==
  ASSUME IndInv, ~RunMayOverlapShutdown, Shutdown
  PROVE  IndInv'
<1>1. /\ spc = "none" /\ spc' = "walking" /\ shutting_down' = TRUE
      /\ saved' = all_workers /\ all_workers' = <<>> /\ idle_workers' = <<>>
      /\ \A c \in Clients : rpc[c] = "none"
      /\ UNCHANGED <<count_started, pool, task, wpc, running, notified, runVars, life>>
  BY DEF Shutdown
<1>2. /\ count_stopped' = count_stopped + Len(all_workers)
      /\ count_idle' = 0 /\ count_running' = 0
      /\ owned' = [w \in Workers |-> owned[w] /\ w \notin Range(all_workers)]
  BY DEF Shutdown
<1>3. saved = <<>> /\ Range(saved) = {} /\ Range(all_workers') = {} /\ Range(idle_workers') = {}
  BY <1>1, EmptyList DEF IndInv, PhaseInv
<1>4. CountersAgree' /\ count_stopped' \in Nat
  <2>1. /\ Len(all_workers) \in Nat /\ count_started \in Nat /\ count_stopped \in Nat
        /\ count_started - count_stopped = Len(all_workers)
    BY DEF IndInv, TypeOK, CountersAgree
  <2>2. Len(all_workers') = 0 /\ Len(idle_workers') = 0
    BY <1>1
  <2> QED BY <1>1, <1>2, <2>1, <2>2 DEF CountersAgree
<1>5. TypeOK'
  <2>1. owned' \in [Workers -> BOOLEAN]
    BY <1>2 DEF IndInv, TypeOK
  <2>2. all_workers' \in Seq(Workers) /\ idle_workers' \in Seq(Workers)
    BY <1>1
  <2> QED BY <1>1, <1>2, <1>4, <2>1, <2>2 DEF IndInv, TypeOK
<1>6. ListInv'
  BY <1>1, <1>3, EmptyList DEF IndInv, ListInv
<1>7. PhaseInv'
  BY <1>1 DEF IndInv, PhaseInv
<1>8. WorkerInv'
  <2> SUFFICES ASSUME NEW w \in Workers PROVE WorkerOK(w)'
    BY DEF WorkerInv
  <2>1. WorkerOK(w)
    BY DEF IndInv, WorkerInv
  <2>2. owned'[w] <=> owned[w] /\ w \notin Range(all_workers)
    BY <1>2, ZenonT(30)
  <2>3. ~owned'[w]
    BY <2>1, <2>2 DEF WorkerOK
  <2> QED BY <1>1, <1>3, <2>1, <2>3, ZenonT(30) DEF WorkerOK, Alive, HoldsMonitor
<1>9. RunInv'
  BY <1>1 DEF IndInv, RunInv, RunOK
<1> QED BY <1>4, <1>5, <1>6, <1>7, <1>8, <1>9 DEF IndInv

LEMMA ShutdownWorkerStep ==
  ASSUME IndInv, ShutdownWorker, NEW w \in Range(saved), w = Head(saved),
         w \in Workers, Removed(saved, w, saved')
  PROVE  IndInv'
<1>1. /\ saved' \in Seq(Workers) /\ Range(saved') = Range(saved) \ {w} /\ IsInjective(saved')
  BY DEF Removed
<1>2. /\ spc = "walking" /\ ~HoldsMonitor(w)
      /\ UNCHANGED <<listVars, countVars, task, owned, wpc, running, runVars, spc, life>>
  BY ZenonT(30) DEF ShutdownWorker
<1>3. /\ pool'[w] = FALSE /\ \A v \in Workers \ {w} : SameWorker(v)
  <2>1. pool' = [pool EXCEPT ![w] = FALSE]
    BY ZenonT(30) DEF ShutdownWorker
  <2>2. pool'[w] = FALSE /\ \A v \in Workers \ {w} : pool'[v] = pool[v]
    BY <2>1, ZenonT(30) DEF IndInv, TypeOK
  <2> QED BY <1>2, <2>2, ZenonT(30) DEF SameWorker
<1>4. TypeOK'
  <2>1. pool' \in [Workers -> BOOLEAN]
    BY ZenonT(30) DEF IndInv, TypeOK, ShutdownWorker
  <2>2. notified' \in [Workers -> BOOLEAN]
    BY ZenonT(30) DEF IndInv, TypeOK, ShutdownWorker
  <2> QED BY <1>1, <1>2, <2>1, <2>2 DEF IndInv, TypeOK
<1>5. /\ all_workers = <<>> /\ idle_workers = <<>> /\ Range(all_workers) = {}
      /\ Range(idle_workers) = {} /\ \A c \in Clients : rpc[c] = "none"
  BY <1>2, EmptyList DEF IndInv, PhaseInv
<1>6. ListInv' /\ PhaseInv' /\ CountersAgree'
  BY <1>1, <1>2 DEF IndInv, ListInv, PhaseInv, CountersAgree
<1>7. WorkerInv'
  <2> SUFFICES ASSUME NEW v \in Workers PROVE WorkerOK(v)'
    BY DEF WorkerInv
  <2>1. WorkerOK(v)
    BY DEF IndInv, WorkerInv
  <2>2. CASE v = w
    <3>1. /\ w \notin Range(all_workers') /\ w \notin Range(idle_workers')
          /\ w \notin Range(saved')
      BY <1>1, <1>2, <1>5
    <3>2. ~owned'[w] /\ ~HoldsMonitor(w) /\ wpc' = wpc /\ task' = task /\ running' = running
      BY <1>2, <1>5, <2>1, <2>2 DEF WorkerOK
    <3> QED BY <1>3, <2>1, <2>2, <3>1, <3>2, ZenonT(30) DEF WorkerOK, Alive, HoldsMonitor
  <2>3. CASE v # w
    <3>1. SameWorker(v) /\ SameOnLists(v)
      BY <1>1, <1>2, <1>3, <2>3 DEF SameOnLists
    <3> QED BY <2>1, <3>1, WorkerFrame
  <2> QED BY <2>2, <2>3
<1>8. RunInv'
  BY <1>2, <1>5, ZenonT(30) DEF IndInv, RunInv, RunOK
<1> QED BY <1>4, <1>6, <1>7, <1>8 DEF IndInv

LEMMA ShutdownDoneStep ==
  ASSUME IndInv, ShutdownDone
  PROVE  IndInv'
<1>1. /\ spc = "walking" /\ saved = <<>> /\ spc' = "done"
      /\ UNCHANGED <<listVars, countVars, workerVars, runVars, saved, life>>
  BY DEF ShutdownDone
<1>2. TypeOK' /\ ListInv' /\ PhaseInv' /\ CountersAgree'
  BY <1>1 DEF IndInv, TypeOK, ListInv, PhaseInv, CountersAgree
<1>3. WorkerInv' /\ RunInv'
  BY <1>1, ZenonT(30) DEF IndInv, WorkerInv, WorkerOK, RunInv, RunOK, Alive, HoldsMonitor
<1> QED BY <1>2, <1>3 DEF IndInv

-----------------------------------------------------------------------------
(* The linked lists.                                                       *)

LEMMA RangeTyped ==
  ASSUME NEW s \in Seq(Workers)
  PROVE  Range(s) \subseteq Workers
BY DEF Range

\* Run pushes a new worker on all_workers_.
LEMMA RunNewWorkerInd ==
  ASSUME IndInv, NEW c \in Clients, NEW t \in Tasks, NEW w \in Workers,
         RunNewWorker(c, t, w)
  PROVE  IndInv'
<1>1. /\ all_workers \in Seq(Workers) /\ IsInjective(all_workers)
      /\ all_workers' = <<w>> \o all_workers
  BY DEF IndInv, TypeOK, ListInv, RunNewWorker
<1>2. w \notin Range(all_workers)
  <2>1. WorkerOK(w) /\ wpc[w] = "unborn"
    BY DEF IndInv, WorkerInv, RunNewWorker
  <2> QED BY <2>1, ZenonT(30) DEF WorkerOK, Alive
<1>3. Pushed(all_workers, w, all_workers')
  BY <1>1, <1>2, PrependLemma DEF Pushed
<1> QED BY <1>3, RunNewWorkerStep

\* Run pops the first idle worker.
LEMMA RunIdleWorkerInd ==
  ASSUME IndInv, NEW c \in Clients, NEW t \in Tasks, RunIdleWorker(c, t)
  PROVE  IndInv'
<1>1. /\ idle_workers \in Seq(Workers) /\ IsInjective(idle_workers)
      /\ idle_workers # <<>> /\ idle_workers' = Tail(idle_workers)
  BY DEF IndInv, TypeOK, ListInv, RunIdleWorker
<1>2. PICK w \in Range(idle_workers) : w = Head(idle_workers) /\ w \in Workers
  BY <1>1, TailLemma
<1>3. Removed(idle_workers, w, idle_workers')
  BY <1>1, <1>2, TailLemma DEF Removed
<1> QED BY <1>2, <1>3, RunIdleWorkerStep

\* SetIdle pushes the worker on the idle list, which stays within the list
\* of all workers.
LEMMA SetIdleInd ==
  ASSUME IndInv, NEW w \in Workers, SetIdle(w)
  PROVE  IndInv'
<1>1. /\ idle_workers \in Seq(Workers) /\ IsInjective(idle_workers)
      /\ all_workers \in Seq(Workers) /\ IsInjective(all_workers)
      /\ Range(idle_workers) \subseteq Range(all_workers)
  BY DEF IndInv, TypeOK, ListInv
<1>2. WorkerOK(w) /\ wpc[w] = "SetIdle" /\ pool[w]
  BY DEF IndInv, WorkerInv, SetIdle, WorkerOK, HoldsMonitor
<1>3. w \notin Range(idle_workers)
  BY <1>2 DEF WorkerOK
<1>4. ASSUME ~shutting_down
      PROVE  /\ Pushed(idle_workers, w, idle_workers')
             /\ Len(idle_workers') <= Len(all_workers)
  <2>1. idle_workers' = <<w>> \o idle_workers /\ saved = <<>>
    BY <1>4 DEF SetIdle, IndInv, PhaseInv
  <2>2. Pushed(idle_workers, w, idle_workers')
    BY <1>1, <1>3, <2>1, PrependLemma DEF Pushed
  <2>3. w \in Range(all_workers)
    BY <1>2, <2>1, EmptyList DEF WorkerOK, Alive
  <2>4. Range(idle_workers') \subseteq Range(all_workers)
    BY <1>1, <2>2, <2>3 DEF Pushed
  <2>5. idle_workers' \in Seq(Workers) /\ IsInjective(idle_workers')
    BY <2>2 DEF Pushed
  <2> QED BY <1>1, <2>2, <2>4, <2>5, LengthLemma
<1> QED BY <1>4, SetIdleStep

\* A worker whose wait timed out unlinks itself from both lists.
LEMMA ReleaseIdleWorkerInd ==
  ASSUME IndInv, NEW w \in Workers, ReleaseIdleWorker(w)
  PROVE  IndInv'
<1>1. /\ idle_workers \in Seq(Workers) /\ IsInjective(idle_workers)
      /\ all_workers \in Seq(Workers) /\ IsInjective(all_workers)
      /\ Range(idle_workers) \subseteq Range(all_workers)
  BY DEF IndInv, TypeOK, ListInv
<1>2. ASSUME MayRelease(w)
      PROVE  /\ Removed(idle_workers, w, idle_workers')
             /\ Removed(all_workers, w, all_workers')
  <2>1. /\ w \in Range(idle_workers) /\ w \in Range(all_workers)
        /\ idle_workers' = Unlink(idle_workers, w)
        /\ all_workers' = Unlink(all_workers, w)
    BY <1>1, <1>2 DEF MayRelease, ReleaseIdleWorker
  <2>2. Removed(idle_workers, w, idle_workers')
    BY <1>1, <2>1, UnlinkLemma DEF Removed
  <2>3. Removed(all_workers, w, all_workers')
    BY <1>1, <2>1, UnlinkLemma DEF Removed
  <2> QED BY <2>2, <2>3
<1> QED BY <1>2, ReleaseIdleWorkerStep

\* Shutdown takes the next worker of the list it walks.
LEMMA ShutdownWorkerInd ==
  ASSUME IndInv, ShutdownWorker
  PROVE  IndInv'
<1>1. saved \in Seq(Workers) /\ IsInjective(saved) /\ saved # <<>> /\ saved' = Tail(saved)
  BY DEF IndInv, TypeOK, ListInv, ShutdownWorker
<1>2. PICK w \in Range(saved) : w = Head(saved) /\ w \in Workers
  BY <1>1, TailLemma
<1>3. Removed(saved, w, saved')
  BY <1>1, <1>2, TailLemma DEF Removed
<1> QED BY <1>2, <1>3, ShutdownWorkerStep

LEMMA InitIndInv == Init => IndInv
<1> SUFFICES ASSUME Init PROVE IndInv
  OBVIOUS
<1>1. TypeOK
  <2>1. <<>> \in Seq(Workers)
    OBVIOUS
  <2>2. /\ all_workers \in Seq(Workers) /\ idle_workers \in Seq(Workers)
        /\ saved \in Seq(Workers)
    BY <2>1, ZenonT(30) DEF Init
  <2>3. shutting_down \in BOOLEAN /\ spc \in {"none", "walking", "done"}
    BY ZenonT(30) DEF Init
  <2>4. /\ count_started \in Nat /\ count_stopped \in Nat
        /\ count_running \in Nat /\ count_idle \in Nat
    BY DEF Init
  <2>5. /\ wpc \in [Workers -> WorkerPCs] /\ rpc \in [Clients -> RunPCs]
        /\ life \in [Tasks -> Lives]
    BY DEF Init, WorkerPCs, RunPCs, Lives
  <2>6. /\ pool \in [Workers -> BOOLEAN] /\ owned \in [Workers -> BOOLEAN]
        /\ notified \in [Workers -> BOOLEAN]
    BY ZenonT(30) DEF Init
  <2>7. /\ task \in [Workers -> Tasks \cup {NoTask}]
        /\ running \in [Workers -> Tasks \cup {NoTask}]
        /\ rworker \in [Clients -> Workers \cup {NoWorker}]
        /\ rtask \in [Clients -> Tasks \cup {NoTask}]
    BY DEF Init
  <2> QED BY <2>2, <2>3, <2>4, <2>5, <2>6, <2>7 DEF TypeOK
<1>2. ListInv /\ PhaseInv /\ CountersAgree
  BY EmptyList DEF Init, ListInv, PhaseInv, CountersAgree
<1>3. WorkerInv
  <2> SUFFICES ASSUME NEW w \in Workers PROVE WorkerOK(w)
    BY DEF WorkerInv
  <2>1. /\ wpc[w] = "unborn" /\ pool[w] = FALSE /\ owned[w] = FALSE /\ task[w] = NoTask
        /\ Range(all_workers) = {} /\ Range(idle_workers) = {} /\ Range(saved) = {}
    BY EmptyList, ZenonT(30) DEF Init
  <2> QED BY <2>1, ZenonT(30) DEF WorkerOK, Alive, HoldsMonitor
<1>4. RunInv
  BY DEF Init, RunInv, RunOK
<1> QED BY <1>1, <1>2, <1>3, <1>4 DEF IndInv

LEMMA NextIndInv ==
  ASSUME ~RunMayOverlapShutdown, IndInv, [Next]_vars
  PROVE  IndInv'
<1>1. CASE UNCHANGED vars
  <2>1. UNCHANGED <<listVars, countVars, workerVars, runVars, downVars, life>>
    BY <1>1 DEF vars
  <2>2. TypeOK' /\ ListInv' /\ PhaseInv' /\ CountersAgree'
    BY <2>1 DEF IndInv, TypeOK, ListInv, PhaseInv, CountersAgree
  <2>3. WorkerInv'
    BY <2>1, ZenonT(30) DEF IndInv, WorkerInv, WorkerOK, Alive, HoldsMonitor
  <2>4. RunInv'
    BY <2>1, ZenonT(30) DEF IndInv, RunInv, RunOK
  <2> QED BY <2>2, <2>3, <2>4 DEF IndInv
<1>2. ASSUME NEW c \in Clients, RunStep(c) PROVE IndInv'
  BY <1>2, RunRefusedStep, RunNewWorkerInd, RunIdleWorkerInd, SetTaskStep,
     StartThreadStep, ZenonT(30) DEF RunStep
<1>3. ASSUME NEW w \in Workers, WorkerStep(w) PROVE IndInv'
  <2>1. CASE WakeNotified(w) \/ WakeSpurious(w) \/ WakeTimedOut(w)
    <3>1. Wake(w, "notified") \/ Wake(w, "spurious") \/ Wake(w, "timed out")
      BY <2>1, ZenonT(30) DEF WakeNotified, WakeSpurious, WakeTimedOut
    <3> QED BY <3>1, WakeStep, ZenonT(30)
  <2>2. CASE ~(WakeNotified(w) \/ WakeSpurious(w) \/ WakeTimedOut(w))
    BY <1>3, <2>2, EnterLoopStep, FinishTaskStep, SetIdleInd,
       ReleaseIdleWorkerInd, DeleteWorkerStep, ZenonT(30) DEF WorkerStep
  <2> QED BY <2>1, <2>2
<1>4. CASE Shutdown \/ ShutdownWorker \/ ShutdownDone
  BY <1>4, ShutdownStep, ShutdownWorkerInd, ShutdownDoneStep
<1>5. CASE Terminated
  BY <1>1, <1>5 DEF Terminated
<1> QED BY <1>1, <1>2, <1>3, <1>4, <1>5 DEF Next

-----------------------------------------------------------------------------
\* The inductive invariant holds in every pool whose destructor does not
\* overlap a call of Run.
THEOREM PoolInvariant ==
  ASSUME ~RunMayOverlapShutdown
  PROVE  Spec => []IndInv
<1>1. Init => IndInv
  BY InitIndInv
<1>2. IndInv /\ [Next]_vars => IndInv'
  BY NextIndInv
<1> QED BY <1>1, <1>2, PTL DEF Spec

\* Types: in particular the unsigned statistics of the pool never wrap
\* below zero.
THEOREM TypeCorrect ==
  ASSUME ~RunMayOverlapShutdown
  PROVE  Spec => []TypeOK
<1>1. IndInv => TypeOK
  BY DEF IndInv
<1> QED BY <1>1, PoolInvariant, PTL

\* No thread dereferences a Worker after its own thread has deleted it:
\* neither SetTask and StartThread after Run has released mutex_, nor the
\* unlocked walk of Shutdown.
THEOREM WorkersOutliveUse ==
  ASSUME ~RunMayOverlapShutdown
  PROVE  Spec => []NoUseAfterDelete
<1>1. IndInv => NoUseAfterDelete
  <2> SUFFICES ASSUME IndInv, NEW w \in Reachable
               PROVE  wpc[w] \notin {"unborn", "deleted"}
    BY DEF NoUseAfterDelete
  <2>1. w \in Range(all_workers) \cup Range(saved)
    <3>1. \A c \in Clients : rpc[c] # "none" => rworker[c] \in Range(all_workers)
      BY ZenonT(30) DEF IndInv, RunInv, RunOK
    <3> QED BY <3>1 DEF IndInv, Reachable, ListInv
  <2>2. w \in Workers
    BY <2>1, RangeTyped DEF IndInv, TypeOK
  <2>3. WorkerOK(w)
    BY <2>2 DEF IndInv, WorkerInv
  <2> QED BY <2>1, <2>3, ZenonT(30) DEF WorkerOK, Alive
<1> QED BY <1>1, PoolInvariant, PTL

\* The pool never gives a second task to a worker (the ASSERT in SetTask),
\* and Loop finds or misses a task exactly where it asserts so.
THEOREM TasksMeetFreeWorkers ==
  ASSUME ~RunMayOverlapShutdown
  PROVE  Spec => [](OneTaskPerWorker /\ LoopAsserts)
<1>1. ASSUME IndInv PROVE OneTaskPerWorker
  <2>1. ASSUME NEW w \in Range(idle_workers)
        PROVE  /\ wpc[w] \in {"waiting", "ReleaseIdleWorker"} /\ task[w] = NoTask
               /\ \A c \in Clients : rworker[c] # w
    <3>1. w \in Workers
      BY <1>1, RangeTyped DEF IndInv, TypeOK
    <3>2. WorkerOK(w)
      BY <1>1, <3>1 DEF IndInv, WorkerInv
    <3>3. ASSUME NEW c \in Clients PROVE rworker[c] # w
      <4>1. RunOK(c)
        BY <1>1 DEF IndInv, RunInv
      <4> QED BY <3>1, <4>1, NullAssumption DEF RunOK
    <3> QED BY <3>2, <3>3 DEF WorkerOK
  <2>2. ASSUME NEW c \in Clients, rpc[c] \in {"SetTask", "SetFirstTask"}
        PROVE  /\ task[rworker[c]] = NoTask
               /\ \A d \in Clients \ {c} : rworker[d] # rworker[c]
    <3>1. RunOK(c)
      BY <1>1 DEF IndInv, RunInv
    <3> QED BY <2>2, <3>1 DEF RunOK
  <2> QED BY <2>1, <2>2, ZenonT(30) DEF OneTaskPerWorker
<1>2. IndInv => LoopAsserts
  BY DEF IndInv, LoopAsserts, WorkerInv, WorkerOK
<1> QED BY <1>1, <1>2, PoolInvariant, PTL

\* A worker thread that leaves Main is on no list and not owned, as the
\* unlocked ASSERT in Worker::Main expects.
THEOREM ExitIsClean ==
  ASSUME ~RunMayOverlapShutdown
  PROVE  Spec => []ExitingIsDisowned
<1>1. IndInv => ExitingIsDisowned
  <2> SUFFICES ASSUME IndInv, NEW w \in Workers, wpc[w] = "exiting"
               PROVE  /\ ~owned[w]
                      /\ w \notin Range(all_workers) /\ w \notin Range(idle_workers)
                      /\ w \notin Range(saved)
    BY DEF ExitingIsDisowned
  <2>1. WorkerOK(w)
    BY DEF IndInv, WorkerInv
  <2>2. Range(idle_workers) \subseteq Range(all_workers)
    BY DEF IndInv, ListInv
  <2> QED BY <2>1, <2>2, ZenonT(30) DEF WorkerOK, Alive
<1> QED BY <1>1, PoolInvariant, PTL

\* The statistics agree with the lists, so that the ASSERT in Shutdown on
\* count_started_ and count_stopped_ holds.
THEOREM CountersCorrect ==
  ASSUME ~RunMayOverlapShutdown
  PROVE  Spec => []CountersAgree
<1>1. IndInv => CountersAgree
  BY DEF IndInv
<1> QED BY <1>1, PoolInvariant, PTL

\* After the destructor has returned no worker calls into the pool.
THEOREM PoolOutlivesWorkers ==
  ASSUME ~RunMayOverlapShutdown
  PROVE  Spec => []PoolOutlivesUse
<1>1. IndInv => PoolOutlivesUse
  <2> SUFFICES ASSUME IndInv, spc = "done", NEW w \in Workers
               PROVE  /\ wpc[w] \notin {"SetIdle", "ReleaseIdleWorker"}
                      /\ pool[w] => wpc[w] \in {"unborn", "exiting", "deleted"}
    BY DEF PoolOutlivesUse
  <2>1. Range(all_workers) = {} /\ Range(saved) = {}
    BY EmptyList DEF IndInv, PhaseInv
  <2>2. WorkerOK(w)
    BY DEF IndInv, WorkerInv
  <2> QED BY <2>1, <2>2, ZenonT(30) DEF WorkerOK, Alive, HoldsMonitor
<1> QED BY <1>1, PoolInvariant, PTL

-----------------------------------------------------------------------------
(* The refinement of TaskPool.  A step of a worker names a task only        *)
(* through the fields of the worker, so the invariant has to say where an   *)
(* accepted and a running task are, and that each is in one place only.     *)

Pending(c) == rpc[c] \in {"SetTask", "SetFirstTask"}

\* An accepted task is with the call of Run that accepted it or in the task_
\* of a worker, a running one with the worker that runs it.
WhereTasksAre ==
  /\ \A w \in Workers : task[w] # NoTask => life[task[w]] = "accepted"
  /\ \A w \in Workers : wpc[w] = "running" => life[running[w]] = "running"
  /\ \A c \in Clients : Pending(c) => life[rtask[c]] = "accepted"

\* No two of these hold the same task.
TasksApart ==
  /\ \A v, w \in Workers : task[v] = task[w] /\ v # w => task[v] = NoTask
  /\ \A v, w \in Workers :
       wpc[v] = "running" /\ wpc[w] = "running" /\ v # w => running[v] # running[w]
  /\ \A c, d \in Clients : Pending(c) /\ Pending(d) /\ c # d => rtask[c] # rtask[d]
  /\ \A c \in Clients, w \in Workers : Pending(c) => task[w] # rtask[c]

TaskInv == WhereTasksAre /\ TasksApart

LEMMA TaskTypes ==
  ASSUME IndInv
  PROVE  /\ \A w \in Workers : task[w] # NoTask => task[w] \in Tasks
         /\ \A w \in Workers : wpc[w] = "running" => running[w] \in Tasks
         /\ \A c \in Clients : Pending(c) => rtask[c] \in Tasks
         /\ life \in [Tasks -> Lives] /\ wpc \in [Workers -> WorkerPCs]
         /\ task \in [Workers -> Tasks \cup {NoTask}]
         /\ running \in [Workers -> Tasks \cup {NoTask}]
         /\ rtask \in [Clients -> Tasks \cup {NoTask}]
         /\ rpc \in [Clients -> RunPCs]
<1>1. \A w \in Workers : wpc[w] = "running" => running[w] # NoTask
  BY DEF IndInv, WorkerInv, WorkerOK
<1>2. \A c \in Clients : Pending(c) => rtask[c] \in Tasks
  BY DEF IndInv, RunInv, RunOK, Pending
<1> QED BY <1>1, <1>2 DEF IndInv, TypeOK

\* Steps that move no task.
LEMMA TasksStay ==
  ASSUME TaskInv, UNCHANGED <<task, running, life, runVars>>,
         \A w \in Workers : wpc'[w] = "running" => wpc[w] = "running"
  PROVE  TaskInv'
BY DEF TaskInv, WhereTasksAre, TasksApart, Pending

\* Run accepts the new task t.
LEMMA AcceptTaskInv ==
  ASSUME IndInv, TaskInv, NEW c \in Clients, NEW t \in Tasks,
         life[t] = "new", rpc[c] = "none",
         life' = [life EXCEPT ![t] = "accepted"],
         rtask' = [rtask EXCEPT ![c] = t],
         NEW p \in RunPCs, rpc' = [rpc EXCEPT ![c] = p],
         UNCHANGED <<task, running>>,
         \A w \in Workers : wpc'[w] = "running" => wpc[w] = "running"
  PROVE  TaskInv'
<1>1. /\ \A w \in Workers : task[w] # NoTask => task[w] \in Tasks
      /\ \A w \in Workers : wpc[w] = "running" => running[w] \in Tasks
      /\ \A d \in Clients : Pending(d) => rtask[d] \in Tasks
      /\ life \in [Tasks -> Lives]
      /\ rtask \in [Clients -> Tasks \cup {NoTask}] /\ rpc \in [Clients -> RunPCs]
  BY TaskTypes
<1>2. \A d \in Clients \ {c} : rtask'[d] = rtask[d] /\ Pending(d)' = Pending(d)
  BY <1>1, ZenonT(30) DEF Pending
<1>3. rtask'[c] = t /\ life'[t] = "accepted" /\ \A u \in Tasks \ {t} : life'[u] = life[u]
  BY <1>1
<1>4. /\ \A w \in Workers : task[w] # t
      /\ \A w \in Workers : wpc[w] = "running" => running[w] # t
      /\ \A d \in Clients : Pending(d) => rtask[d] # t
  BY NullAssumption, ZenonT(30) DEF TaskInv, WhereTasksAre
<1>5. WhereTasksAre'
  BY <1>1, <1>2, <1>3, <1>4, ZenonT(30) DEF TaskInv, WhereTasksAre
<1>6. TasksApart'
  BY <1>2, <1>3, <1>4 DEF TaskInv, TasksApart
<1> QED BY <1>5, <1>6 DEF TaskInv

\* SetTask hands the task over to the worker.
LEMMA SetTaskInv ==
  ASSUME IndInv, TaskInv, NEW c \in Clients, SetTask(c)
  PROVE  TaskInv'
<1> DEFINE w == rworker[c]
<1>1. /\ w \in Workers /\ rtask[c] \in Tasks /\ task[w] = NoTask /\ Pending(c)
  BY ZenonT(30) DEF IndInv, RunInv, RunOK, SetTask, Pending
<1>2. /\ task' = [task EXCEPT ![w] = rtask[c]]
      /\ UNCHANGED <<wpc, running, life>>
      /\ \/ rpc' = [rpc EXCEPT ![c] = "StartThread"] /\ UNCHANGED rtask
         \/ /\ rpc' = [rpc EXCEPT ![c] = "none"]
            /\ rtask' = [rtask EXCEPT ![c] = NoTask]
  BY DEF SetTask, ReturnFromRun
<1> HIDE DEF w
<1>3. /\ task'[w] = rtask[c] /\ \A v \in Workers \ {w} : task'[v] = task[v]
  BY <1>1, <1>2, TaskTypes
<1>4. /\ ~Pending(c)' /\ \A d \in Clients \ {c} : rtask'[d] = rtask[d] /\ Pending(d)' = Pending(d)
  BY <1>2, TaskTypes DEF Pending
<1>5. WhereTasksAre /\ TasksApart
  BY ZenonT(30) DEF TaskInv
<1>6. WhereTasksAre'
  <2>1. life[rtask[c]] = "accepted"
    BY <1>1, <1>5, ZenonT(30) DEF WhereTasksAre
  <2>2. \A v \in Workers : task'[v] # NoTask => life'[task'[v]] = "accepted"
    BY <1>2, <1>3, <1>5, <2>1 DEF WhereTasksAre
  <2>3. \A v \in Workers : wpc'[v] = "running" => life'[running'[v]] = "running"
    BY <1>2, <1>5 DEF WhereTasksAre
  <2>4. \A d \in Clients : Pending(d)' => life'[rtask'[d]] = "accepted"
    BY <1>2, <1>4, <1>5 DEF WhereTasksAre
  <2> QED BY <2>2, <2>3, <2>4, ZenonT(30) DEF WhereTasksAre
<1>7. TasksApart'
  <2>1. \A v \in Workers : task[v] # rtask[c]
    BY <1>1, <1>5, ZenonT(30) DEF TasksApart
  <2>2. \A v, u \in Workers : task'[v] = task'[u] /\ v # u => task'[v] = NoTask
    BY <1>3, <1>5, <2>1 DEF TasksApart
  <2>3. \A v, u \in Workers :
          wpc'[v] = "running" /\ wpc'[u] = "running" /\ v # u => running'[v] # running'[u]
    BY <1>2, <1>5 DEF TasksApart
  <2>4. \A d, b \in Clients : Pending(d)' /\ Pending(b)' /\ d # b => rtask'[d] # rtask'[b]
    BY <1>4, <1>5 DEF TasksApart
  <2>5. \A d \in Clients, v \in Workers : Pending(d)' => task'[v] # rtask'[d]
    BY <1>1, <1>3, <1>4, <1>5 DEF TasksApart
  <2> QED BY <2>2, <2>3, <2>4, <2>5, ZenonT(30) DEF TasksApart
<1> QED BY <1>6, <1>7 DEF TaskInv

\* The loop takes the task of the worker and runs it.
LEMMA TakeTaskInv ==
  ASSUME IndInv, TaskInv, NEW w \in Workers, task[w] # NoTask, wpc[w] # "running",
         wpc' = [wpc EXCEPT ![w] = "running"], TakeTask(w), UNCHANGED runVars
  PROVE  TaskInv'
<1>1. /\ \A v \in Workers : task[v] # NoTask => task[v] \in Tasks
      /\ \A v \in Workers : wpc[v] = "running" => running[v] \in Tasks
      /\ \A c \in Clients : Pending(c) => rtask[c] \in Tasks
      /\ life \in [Tasks -> Lives]
  BY TaskTypes
<1>2. /\ wpc'[w] = "running" /\ running'[w] = task[w] /\ task'[w] = NoTask
      /\ \A v \in Workers \ {w} :
           wpc'[v] = wpc[v] /\ running'[v] = running[v] /\ task'[v] = task[v]
  BY TaskTypes DEF TakeTask
<1>3. /\ task[w] \in Tasks /\ life[task[w]] = "accepted" /\ life'[task[w]] = "running"
      /\ \A t \in Tasks \ {task[w]} : life'[t] = life[t]
  BY <1>1 DEF TaskInv, WhereTasksAre, TakeTask
<1>4. /\ \A v \in Workers \ {w} : task[v] # task[w]
      /\ \A v \in Workers : wpc[v] = "running" => running[v] # task[w]
      /\ \A c \in Clients : Pending(c) => rtask[c] # task[w]
      /\ \A c \in Clients : Pending(c)' = Pending(c) /\ rtask'[c] = rtask[c]
  BY <1>3, ZenonT(30) DEF TaskInv, WhereTasksAre, TasksApart, Pending
<1>5. WhereTasksAre /\ TasksApart
  BY ZenonT(30) DEF TaskInv
<1>6. WhereTasksAre'
  <2>1. \A v \in Workers : task'[v] # NoTask => life'[task'[v]] = "accepted"
    BY <1>1, <1>2, <1>3, <1>4, <1>5 DEF WhereTasksAre
  <2>2. \A v \in Workers : wpc'[v] = "running" => life'[running'[v]] = "running"
    BY <1>1, <1>2, <1>3, <1>4, <1>5 DEF WhereTasksAre
  <2>3. \A c \in Clients : Pending(c)' => life'[rtask'[c]] = "accepted"
    BY <1>1, <1>3, <1>4, <1>5 DEF WhereTasksAre
  <2> QED BY <2>1, <2>2, <2>3, ZenonT(30) DEF WhereTasksAre
<1>7. TasksApart'
  <2>1. \A v, u \in Workers : task'[v] = task'[u] /\ v # u => task'[v] = NoTask
    BY <1>2, <1>5 DEF TasksApart
  <2>2. \A v, u \in Workers :
          wpc'[v] = "running" /\ wpc'[u] = "running" /\ v # u => running'[v] # running'[u]
    BY <1>2, <1>4, <1>5 DEF TasksApart
  <2>3. \A c, d \in Clients : Pending(c)' /\ Pending(d)' /\ c # d => rtask'[c] # rtask'[d]
    BY <1>4, <1>5 DEF TasksApart
  <2>4. \A c \in Clients, v \in Workers : Pending(c)' => task'[v] # rtask'[c]
    BY <1>1, <1>2, <1>4, <1>5, NullAssumption DEF TasksApart
  <2> QED BY <2>1, <2>2, <2>3, <2>4, ZenonT(30) DEF TasksApart
<1> QED BY <1>6, <1>7 DEF TaskInv

\* The task has returned and is deleted.
LEMMA FinishTaskInv ==
  ASSUME IndInv, TaskInv, NEW w \in Workers, FinishTask(w)
  PROVE  TaskInv'
<1>1. /\ \A v \in Workers : task[v] # NoTask => task[v] \in Tasks
      /\ \A v \in Workers : wpc[v] = "running" => running[v] \in Tasks
      /\ \A c \in Clients : Pending(c) => rtask[c] \in Tasks
      /\ life \in [Tasks -> Lives]
  BY TaskTypes
<1>2. /\ wpc[w] = "running" /\ wpc'[w] # "running"
      /\ \A v \in Workers \ {w} : wpc'[v] = wpc[v] /\ running'[v] = running[v]
      /\ UNCHANGED <<task, runVars>>
  BY TaskTypes DEF FinishTask
<1>3. /\ running[w] \in Tasks /\ life[running[w]] = "running"
      /\ \A t \in Tasks \ {running[w]} : life'[t] = life[t]
  BY <1>1, <1>2 DEF TaskInv, WhereTasksAre, FinishTask
<1>4. /\ \A v \in Workers : task[v] # running[w]
      /\ \A v \in Workers \ {w} : wpc[v] = "running" => running[v] # running[w]
      /\ \A c \in Clients : Pending(c) => rtask[c] # running[w]
  BY <1>2, <1>3, NullAssumption DEF TaskInv, WhereTasksAre, TasksApart
<1>5. WhereTasksAre /\ TasksApart
  BY ZenonT(30) DEF TaskInv
<1>6. /\ task' = task
      /\ \A c \in Clients : (Pending(c)' <=> Pending(c)) /\ rtask'[c] = rtask[c]
  BY <1>2 DEF Pending, runVars
<1>7. WhereTasksAre'
  <2>1. \A v \in Workers : task'[v] # NoTask => life'[task'[v]] = "accepted"
    BY <1>1, <1>3, <1>4, <1>5, <1>6 DEF WhereTasksAre
  <2>2. \A v \in Workers : wpc'[v] = "running" => life'[running'[v]] = "running"
    BY <1>1, <1>2, <1>3, <1>4, <1>5 DEF WhereTasksAre
  <2>3. ASSUME NEW c \in Clients, Pending(c)' PROVE life'[rtask'[c]] = "accepted"
    <3>1. Pending(c) /\ rtask'[c] = rtask[c]
      BY <1>6, <2>3
    <3>2. rtask[c] \in Tasks /\ rtask[c] # running[w]
      BY <1>1, <1>4, <3>1
    <3>3. life[rtask[c]] = "accepted"
      BY <1>5, <3>1 DEF WhereTasksAre
    <3> QED BY <1>3, <3>1, <3>2, <3>3
  <2> QED BY <2>1, <2>2, <2>3, ZenonT(30) DEF WhereTasksAre
<1>8. TasksApart'
  <2>1. \A v, u \in Workers :
          wpc'[v] = "running" /\ wpc'[u] = "running" /\ v # u => running'[v] # running'[u]
    BY <1>2, <1>5 DEF TasksApart
  <2> QED BY <1>5, <1>6, <2>1 DEF TasksApart
<1> QED BY <1>7, <1>8 DEF TaskInv

\* A call of Run accepts the task in its mutex_ section, or refuses it.
LEMMA RunRefines ==
  ASSUME IndInv, TaskInv, NEW c \in Clients, RunStep(c)
  PROVE  TaskInv' /\ [TaskPoolSpec!Next]_(TaskPoolSpec!poolVars)
<1>1. ASSUME NEW t \in Tasks, RunRefused(c, t)
      PROVE  TaskInv' /\ TaskPoolSpec!Drop(t)
  <2>1. /\ life[t] = "new" /\ life' = [life EXCEPT ![t] = "dropped"] /\ shutting_down
        /\ UNCHANGED <<task, running, wpc, runVars, shutting_down>>
    BY <1>1 DEF RunRefused
  <2>2. \A u \in Tasks \ {t} : life'[u] = life[u]
    BY <2>1, TaskTypes
  <2>3. WhereTasksAre'
    BY <2>1, <2>2, TaskTypes DEF TaskInv, WhereTasksAre, Pending
  <2>4. TasksApart'
    BY <2>1, ZenonT(30) DEF TaskInv, TasksApart, Pending
  <2> QED BY <2>1, <2>3, <2>4 DEF TaskInv, TaskPoolSpec!Drop
<1>2. ASSUME NEW t \in Tasks, RunIdleWorker(c, t)
      PROVE  TaskInv' /\ TaskPoolSpec!Accept(t)
  <2>1. /\ life[t] = "new" /\ rpc[c] = "none" /\ ~shutting_down
        /\ life' = [life EXCEPT ![t] = "accepted"]
        /\ rtask' = [rtask EXCEPT ![c] = t]
        /\ rpc' = [rpc EXCEPT ![c] = "SetTask"] /\ "SetTask" \in RunPCs
        /\ UNCHANGED <<task, running, wpc, shutting_down>>
    BY <1>2 DEF RunIdleWorker, RunPCs
  <2>2. TaskInv'
    BY <2>1, AcceptTaskInv, ZenonT(30)
  <2> QED BY <2>1, <2>2 DEF TaskPoolSpec!Accept
<1>3. ASSUME NEW t \in Tasks, NEW w \in Workers, RunNewWorker(c, t, w)
      PROVE  TaskInv' /\ TaskPoolSpec!Accept(t)
  <2>1. /\ life[t] = "new" /\ rpc[c] = "none" /\ ~shutting_down
        /\ life' = [life EXCEPT ![t] = "accepted"]
        /\ rtask' = [rtask EXCEPT ![c] = t]
        /\ rpc' = [rpc EXCEPT ![c] = "SetFirstTask"] /\ "SetFirstTask" \in RunPCs
        /\ wpc' = [wpc EXCEPT ![w] = "allocated"]
        /\ UNCHANGED <<task, running, shutting_down>>
    BY <1>3 DEF RunNewWorker, RunPCs
  <2>2. \A v \in Workers : wpc'[v] = "running" => wpc[v] = "running"
    BY <2>1, TaskTypes
  <2>3. TaskInv'
    BY <2>1, <2>2, AcceptTaskInv, ZenonT(30)
  <2> QED BY <2>1, <2>3 DEF TaskPoolSpec!Accept
<1>4. CASE SetTask(c)
  <2>1. UNCHANGED <<life, shutting_down>>
    BY <1>4, ZenonT(30) DEF SetTask
  <2> QED BY <1>4, <2>1, SetTaskInv DEF TaskPoolSpec!poolVars
<1>5. CASE StartThread(c)
  <2>1. /\ rpc[c] = "StartThread" /\ rpc' = [rpc EXCEPT ![c] = "none"]
        /\ wpc' = [wpc EXCEPT ![rworker[c]] = "start"]
        /\ rtask' = [rtask EXCEPT ![c] = NoTask]
        /\ UNCHANGED <<task, running, life, shutting_down>>
    BY <1>5 DEF StartThread, ReturnFromRun
  <2>2. /\ \A w \in Workers : wpc'[w] = "running" => wpc[w] = "running"
        /\ \A d \in Clients : Pending(d)' = Pending(d) /\ (Pending(d) => rtask'[d] = rtask[d])
    BY <2>1, TaskTypes DEF Pending
  <2>3. WhereTasksAre'
    BY <2>1, <2>2 DEF TaskInv, WhereTasksAre
  <2>4. TasksApart'
    BY <2>1, <2>2 DEF TaskInv, TasksApart
  <2> QED BY <2>1, <2>3, <2>4 DEF TaskInv, TaskPoolSpec!poolVars
<1> QED BY <1>1, <1>2, <1>3, <1>4, <1>5 DEF RunStep, TaskPoolSpec!Next

\* A task starts when the loop takes it, and ends when Run of the task returns.
LEMMA WakeRefines ==
  ASSUME IndInv, TaskInv, NEW w \in Workers, NEW why, Wake(w, why)
  PROVE  TaskInv' /\ [TaskPoolSpec!Next]_(TaskPoolSpec!poolVars)
<1>1. /\ wpc[w] = "waiting" /\ wpc' = [wpc EXCEPT ![w] = AfterWait(w, why)]
      /\ UNCHANGED <<runVars, shutting_down>>
  BY DEF Wake
<1>2. CASE task[w] # NoTask
  <2>1. AfterWait(w, why) = "running" /\ TakeTask(w)
    BY <1>2 DEF Wake, AfterWait
  <2>2. TaskInv'
    BY <1>1, <1>2, <2>1, TakeTaskInv, ZenonT(30)
  <2>3. task[w] \in Tasks /\ TaskPoolSpec!Start(task[w])
    BY <1>1, <1>2, <2>1, TaskTypes
    DEF TakeTask, TaskInv, WhereTasksAre, TaskPoolSpec!Start
  <2> QED BY <2>2, <2>3 DEF TaskPoolSpec!Next
<1>3. CASE task[w] = NoTask
  <2>1. AfterWait(w, why) # "running" /\ UNCHANGED <<running, task, life>>
    BY <1>3, ZenonT(30) DEF Wake, AfterWait
  <2>2. \A v \in Workers : wpc'[v] = "running" => wpc[v] = "running"
    BY <1>1, <2>1, TaskTypes
  <2> QED BY <1>1, <2>1, <2>2, TasksStay DEF TaskPoolSpec!poolVars
<1> QED BY <1>2, <1>3

LEMMA WorkerRefines ==
  ASSUME IndInv, TaskInv, NEW w \in Workers, WorkerStep(w)
  PROVE  TaskInv' /\ [TaskPoolSpec!Next]_(TaskPoolSpec!poolVars)
<1>1. CASE EnterLoop(w)
  <2>1. /\ wpc[w] = "start" /\ wpc' = [wpc EXCEPT ![w] = "running"] /\ TakeTask(w)
        /\ UNCHANGED <<runVars, shutting_down>>
    BY <1>1 DEF EnterLoop
  <2>2. task[w] # NoTask
    BY <2>1 DEF IndInv, WorkerInv, WorkerOK
  <2>3. TaskInv'
    BY <2>1, <2>2, TakeTaskInv, ZenonT(30)
  <2>4. task[w] \in Tasks /\ TaskPoolSpec!Start(task[w])
    BY <2>1, <2>2, TaskTypes
    DEF TakeTask, TaskInv, WhereTasksAre, TaskPoolSpec!Start
  <2> QED BY <2>3, <2>4 DEF TaskPoolSpec!Next
<1>2. CASE FinishTask(w)
  <2>1. running[w] \in Tasks /\ TaskPoolSpec!Finish(running[w])
    BY <1>2, TaskTypes
    DEF FinishTask, TaskInv, WhereTasksAre, TaskPoolSpec!Finish
  <2> QED BY <1>2, <2>1, FinishTaskInv DEF TaskPoolSpec!Next
<1>3. CASE WakeNotified(w) \/ WakeSpurious(w) \/ WakeTimedOut(w)
  <2>1. Wake(w, "notified") \/ Wake(w, "spurious") \/ Wake(w, "timed out")
    BY <1>3, ZenonT(30) DEF WakeNotified, WakeSpurious, WakeTimedOut
  <2> QED BY <2>1, WakeRefines, ZenonT(30)
<1>4. CASE SetIdle(w) \/ ReleaseIdleWorker(w) \/ DeleteWorker(w)
  <2>1. /\ UNCHANGED <<task, running, life, runVars, shutting_down>>
        /\ \E p \in {"waiting", "exiting", "deleted"} : wpc' = [wpc EXCEPT ![w] = p]
    BY <1>4 DEF SetIdle, ReleaseIdleWorker, DeleteWorker
  <2>2. \A v \in Workers : wpc'[v] = "running" => wpc[v] = "running"
    BY <2>1, TaskTypes
  <2> QED BY <2>1, <2>2, TasksStay DEF TaskPoolSpec!poolVars
<1> QED BY <1>1, <1>2, <1>3, <1>4, ZenonT(30) DEF WorkerStep

LEMMA NextRefines ==
  ASSUME IndInv, TaskInv, [Next]_vars
  PROVE  TaskInv' /\ [TaskPoolSpec!Next]_(TaskPoolSpec!poolVars)
<1>1. CASE ShutdownWorker \/ ShutdownDone \/ UNCHANGED vars
  <2>1. UNCHANGED <<task, running, life, runVars, wpc, shutting_down>>
    BY <1>1 DEF ShutdownWorker, ShutdownDone, vars
  <2> QED BY <2>1, TasksStay DEF TaskPoolSpec!poolVars
<1>2. CASE Shutdown
  <2>1. /\ UNCHANGED <<task, running, life, runVars, wpc>>
        /\ spc = "none" /\ shutting_down' = TRUE
    BY <1>2 DEF Shutdown
  <2>2. TaskPoolSpec!Close
    BY <2>1 DEF IndInv, PhaseInv, TaskPoolSpec!Close
  <2> QED BY <2>1, <2>2, TasksStay DEF TaskPoolSpec!Next
<1>3. Terminated => UNCHANGED vars
  BY DEF Terminated
<1> QED BY <1>1, <1>2, <1>3, RunRefines, WorkerRefines, ZenonT(30) DEF Next

\* Seen through life and shutting_down_ alone, the pool with its workers,
\* lists, monitors and timeouts is the TaskPool its callers rely on: Run
\* takes a task exactly while the destructor has not begun, a task is run
\* only after that and only once, and it is deleted when it has returned.
THEOREM PoolRefinesTaskPool ==
  ASSUME ~RunMayOverlapShutdown
  PROVE  Spec => ImplementsTaskPool
<1>1. Init => TaskInv
  <2> SUFFICES ASSUME Init PROVE TaskInv
    OBVIOUS
  <2>1. /\ \A w \in Workers : task[w] = NoTask /\ wpc[w] = "unborn"
        /\ \A c \in Clients : rpc[c] = "none"
    BY DEF Init
  <2> QED BY <2>1, ZenonT(30) DEF TaskInv, WhereTasksAre, TasksApart, Pending
<1>2. Init => TaskPoolSpec!Init
  BY DEF Init, TaskPoolSpec!Init
<1>3. IndInv /\ TaskInv /\ [Next]_vars => TaskInv'
  BY NextRefines
<1>4. IndInv /\ TaskInv /\ [Next]_vars => [TaskPoolSpec!Next]_(TaskPoolSpec!poolVars)
  BY NextRefines
<1> QED BY <1>1, <1>2, <1>3, <1>4, PoolInvariant, PTL
        DEF Spec, ImplementsTaskPool, TaskPoolSpec!Spec
=============================================================================
