--------------------------- MODULE MessageHandler ---------------------------
(***************************************************************************)
(* runtime/vm/message_handler.{h,cc} together with its callers: PortMap    *)
(* (port.cc, as the map of PortRegistry), the isolates (isolate.cc,        *)
(* lib/isolate.cc), native ports (native_message_handler.cc), Dart_RunLoop *)
(* and Dart_HandleMessage (dart_api_impl.cc), and the interrupt that asks  *)
(* busy Dart code to handle out-of-band messages (code_generator.cc).      *)
(*                                                                         *)
(* Threads: for each handler the one that runs its code (a pool worker     *)
(* inside TaskCallback, or the embedder's thread), and the threads that    *)
(* post messages or close native ports.  An action is one critical section *)
(* of PortMap::mutex_ or MessageHandler::monitor_ with the code up to the  *)
(* next one.  PortMap holds its mutex_ across the handler's PostMessage.   *)
(* The thread pool is used through the promise of TaskPool: an accepted    *)
(* task is started some time later on another thread; Dart::thread_pool_   *)
(* is never shut down.                                                     *)
(***************************************************************************)
EXTENDS PortRegistry, Integers, FiniteSets

CONSTANTS
  MainIsolates,       \* isolates the embedder runs: Dart_RunLoop or Dart_HandleMessage
  FunctionIsolates,   \* isolates started by spawnFunction
  ClassIsolates,      \* isolates started by IsolateNatives_start
  NativePorts,        \* NativeMessageHandlers
  NoPort, NoMessage,
  MaxPosts,           \* bound: messages posted to open ports in a behaviour
  MaxRunLoops,        \* bound: calls of Dart_RunLoop for one isolate
  PortInClassIsolate  \* may a class isolate use the top-level getter `port'?

Isolates == MainIsolates \cup FunctionIsolates \cup ClassIsolates

ASSUME MessageAssumption ==
  /\ Handlers = Isolates \cup NativePorts /\ Isolates \cap NativePorts = {}
  /\ MainIsolates \cap (FunctionIsolates \cup ClassIsolates) = {}
  /\ FunctionIsolates \cap ClassIsolates = {}
  /\ NoPort \notin Ports
  /\ MaxPosts \in Nat /\ MaxRunLoops \in Nat /\ PortInClassIsolate \in BOOLEAN

\* A message: its number in the order of posting, which is the order of the
\* queues (MessageQueue is the linked list), and its port.
Message == [id : Nat, port : Ports]

ASSUME NoMessageAssumption == NoMessage \notin Message

VARIABLES
  queue, oob_queue,  \* queue_, oob_queue_: the messages that wait
  live_ports,        \* live_ports_
  pool,              \* pool_ is not NULL
  task,              \* task_: none, accepted by the pool, or running
  start_callback,    \* start_callback_ is not NULL
  pc,                \* where the thread that runs the handler is
  current, oob,      \* the message in HandleMessage; does it have OOB priority?
  runs,              \* number of calls of Run
  main_port,         \* the isolate's main_port_
  got_port,          \* the top-level getter `port' has cached its ReceivePort
  interrupt,         \* kMessageInterrupt is pending in the isolate
  opc, ocurrent,     \* HandleOOBMessages called from Dart code, and its message
  flushing,          \* flushing[p] = h: ClosePort(p) has yet to flush h's queues
  posted             \* number of messages posted

handlerVars == <<queue, oob_queue, live_ports, pool, task, start_callback>>
threadVars  == <<pc, current, oob, runs>>
isolateVars == <<main_port, got_port, interrupt, opc, ocurrent>>
mhVars == <<registryVars, handlerVars, threadVars, isolateVars, flushing, posted>>

\* pc: before the constructor; outside HandleMessage on a thread of the
\* embedder; at rest on the pool; in start_callback_ (before and after RunIsolate
\* has made the main port live); in HandleMessage, from TaskCallback or from
\* HandleNextMessage; in end_callback_, after an error or not; in
\* Isolate::Shutdown; deleted; exit(255).

MHInit ==
  /\ Init
  /\ queue = [h \in Handlers |-> {}] /\ oob_queue = [h \in Handlers |-> {}]
  /\ live_ports = [h \in Handlers |-> 0]
  /\ pool = [h \in Handlers |-> FALSE]
  /\ task = [h \in Handlers |-> "none"]
  /\ start_callback = [h \in Handlers |-> FALSE]
  /\ pc = [h \in Handlers |-> "unborn"]
  /\ current = [h \in Handlers |-> NoMessage]
  /\ oob = [h \in Handlers |-> FALSE]
  /\ runs = [h \in Handlers |-> 0]
  /\ main_port = [h \in Handlers |-> NoPort]
  /\ got_port = [h \in Handlers |-> FALSE]
  /\ interrupt = [h \in Handlers |-> FALSE]
  /\ opc = [h \in Handlers |-> "none"]
  /\ ocurrent = [h \in Handlers |-> NoMessage]
  /\ flushing = [p \in Ports |-> NoHandler]
  /\ posted = 0

\* The thread of isolate h may execute Dart code, and natives called from it.
InDart(h) ==
  /\ h \in Isolates
  /\ \/ pc[h] \in {"embedder", "construct", "start"}
     \/ pc[h] \in {"handle", "handle next"} /\ ~oob[h]
  /\ opc[h] = "none"
  /\ \A p \in Ports : flushing[p] # h

-----------------------------------------------------------------------------
(* Creation and the ports of an isolate.                                   *)

\* Isolate::Init, from the embedder or its isolate creation callback.
CreateIsolate(h, p) ==
  /\ h \in Isolates /\ pc[h] = "unborn"
  /\ CreatePort(p, h)
  /\ main_port' = [main_port EXCEPT ![h] = p]
  /\ pc' = [pc EXCEPT ![h] = "embedder"]
  /\ UNCHANGED <<handlerVars, current, oob, runs, got_port, interrupt, opc,
                 ocurrent, flushing, posted>>

\* Dart_NewNativePort up to its call of Run; a NativeMessageHandler counts one
\* live port from its constructor on.
NewNativePort(h, p) ==
  /\ h \in NativePorts /\ pc[h] = "unborn"
  /\ CreatePort(p, h)
  /\ live_ports' = [live_ports EXCEPT ![h] = 1]
  /\ pc' = [pc EXCEPT ![h] = "embedder"]
  /\ UNCHANGED <<queue, oob_queue, pool, task, start_callback, current, oob, runs,
                 isolateVars, flushing, posted>>

\* new ReceivePort(): the port is created, then made live unless
\* _get_or_create fails.  Other threads learn the id afterwards and never read
\* the count, so the two critical sections are one step.
ReceivePortImpl_factory(h, p, ok) ==
  /\ InDart(h) /\ p \notin used_ids
  /\ owner' = [owner EXCEPT ![p] = h]
  /\ used_ids' = used_ids \cup {p}
  /\ live' = [live EXCEPT ![p] = ok]
  /\ live_ports' = [live_ports EXCEPT ![h] = IF ok THEN @ + 1 ELSE @]
  /\ UNCHANGED <<queue, oob_queue, pool, task, start_callback, threadVars,
                 isolateVars, flushing, posted>>

\* ReceivePortCreate(main_port): PortMap::SetLive counts one more live port.
SetMainPortLive(h) ==
  /\ SetLive(main_port[h])
  /\ live_ports' = [live_ports EXCEPT ![h] = @ + 1]
  /\ UNCHANGED <<queue, oob_queue, pool, task, start_callback, current, oob, runs,
                 main_port, interrupt, opc, ocurrent, flushing, posted>>

\* The getter `port' of lib/isolate.dart calls getPortInternal once.
GetPort(h) ==
  /\ InDart(h) /\ ~got_port[h]
  /\ h \in ClassIsolates => PortInClassIsolate
  /\ SetMainPortLive(h)
  /\ got_port' = [got_port EXCEPT ![h] = TRUE]
  /\ UNCHANGED pc

\* RunIsolate creates the ReceivePort it passes to _run.
CreateRunPort(h) ==
  /\ InDart(h) /\ pc[h] = "construct"
  /\ SetMainPortLive(h)
  /\ pc' = [pc EXCEPT ![h] = "start"]
  /\ UNCHANGED got_port

\* PortMap::ClosePort, the critical section of PortMap::mutex_.  Dart code closes
\* live ports only: a ReceivePort exists for each.
ClosePort(p) ==
  /\ p \in Open
  /\ \/ InDart(owner[p]) /\ live[p]
     \/ owner[p] \in NativePorts /\ pc[owner[p]] # "embedder"
  /\ ClosePorts({p})
  /\ live_ports' = [live_ports EXCEPT ![owner[p]] = IF live[p] THEN @ - 1 ELSE @]
  /\ flushing' = [flushing EXCEPT ![p] = owner[p]]
  /\ UNCHANGED <<queue, oob_queue, pool, task, start_callback, threadVars,
                 isolateVars, posted>>

\* Mutant: the OOB queue is not flushed.
FlushNormalOnly(p) ==
  LET h == flushing[p]
  IN /\ h # NoHandler
     /\ queue' = [queue EXCEPT ![h] = {m \in @ : m.port # p}]
     /\ flushing' = [flushing EXCEPT ![p] = NoHandler]
     /\ UNCHANGED <<registryVars, oob_queue, live_ports, pool, task, start_callback,
                    threadVars, isolateVars, posted>>

\* The rest of it: MessageHandler::ClosePort, and the handler is deleted if the
\* port map owns it and it has no live ports.
FlushPort(p) ==
  LET h == flushing[p]
  IN /\ h # NoHandler
     /\ queue' = [queue EXCEPT ![h] = {m \in @ : m.port # p}]
     /\ oob_queue' = [oob_queue EXCEPT ![h] = {m \in @ : m.port # p}]
     /\ flushing' = [flushing EXCEPT ![p] = NoHandler]
     /\ pc' = [pc EXCEPT ![h] = IF h \in NativePorts /\ live_ports[h] = 0
                                  THEN "deleted" ELSE @]
     /\ UNCHANGED <<registryVars, live_ports, pool, task, start_callback, current,
                    oob, runs, isolateVars, posted>>

-----------------------------------------------------------------------------
(* Posting and running.                                                    *)

\* Mutants: a post never starts a task, starts one while another is there, or
\* does not interrupt the isolate.
PostWith(p, is_oob, new_task, notify) ==
  LET h == owner[p]
      m == [id |-> posted, port |-> p]
  IN /\ p \in Open /\ posted < MaxPosts
     /\ is_oob => h \in Isolates
     /\ posted' = posted + 1
     /\ queue' = [queue EXCEPT ![h] = IF is_oob THEN @ ELSE @ \cup {m}]
     /\ oob_queue' = [oob_queue EXCEPT ![h] = IF is_oob THEN @ \cup {m} ELSE @]
     /\ task' = [task EXCEPT ![h] = IF pool[h] THEN new_task[@] ELSE @]
     /\ interrupt' = [interrupt EXCEPT ![h] = @ \/ (is_oob /\ notify)]
     /\ UNCHANGED <<registryVars, live_ports, pool, start_callback, threadVars,
                    main_port, got_port, opc, ocurrent, flushing>>
PostStartsNoTask(p, is_oob) ==
  PostWith(p, is_oob, [none |-> "none", accepted |-> "accepted", running |-> "running"], TRUE)
PostStartsSecondTask(p, is_oob) ==
  PostWith(p, is_oob,
           [none |-> "accepted", accepted |-> "accepted", running |-> "accepted"], TRUE)
PostWithoutNotify(p, is_oob) ==
  PostWith(p, is_oob,
           [none |-> "accepted", accepted |-> "accepted", running |-> "running"], FALSE)

\* PortMap::PostMessage for an open port (for any other it drops the message),
\* MessageHandler::PostMessage and IsolateMessageHandler::MessageNotify.
PostMessage(p, is_oob) ==
  LET h == owner[p]
      m == [id |-> posted, port |-> p]
  IN /\ p \in Open /\ posted < MaxPosts
     /\ is_oob => h \in Isolates
     /\ posted' = posted + 1
     /\ queue' = [queue EXCEPT ![h] = IF is_oob THEN @ ELSE @ \cup {m}]
     /\ oob_queue' = [oob_queue EXCEPT ![h] = IF is_oob THEN @ \cup {m} ELSE @]
     /\ task' = [task EXCEPT ![h] = IF pool[h] /\ @ = "none" THEN "accepted" ELSE @]
     /\ interrupt' = [interrupt EXCEPT ![h] = @ \/ is_oob]
     /\ UNCHANGED <<registryVars, live_ports, pool, start_callback, threadVars,
                    main_port, got_port, opc, ocurrent, flushing>>

\* MessageHandler::Run, from Dart_RunLoop, isolate_spawnFunction,
\* IsolateNatives_start or Dart_NewNativePort; opc and flushing are at rest.
Run(h) ==
  /\ pc[h] = "embedder" /\ (h \in Isolates => InDart(h))
  /\ h \in MainIsolates => runs[h] < MaxRunLoops
  /\ pool' = [pool EXCEPT ![h] = TRUE]
  /\ start_callback' = [start_callback EXCEPT ![h] = h \in FunctionIsolates \cup ClassIsolates]
  /\ task' = [task EXCEPT ![h] = "accepted"]
  /\ pc' = [pc EXCEPT ![h] = "pool"]
  /\ runs' = [runs EXCEPT ![h] = @ + 1]
  /\ UNCHANGED <<registryVars, queue, oob_queue, live_ports, current, oob,
                 isolateVars, flushing, posted>>

\* DequeueMessage: OOB messages first, in each queue the oldest one.
First(q) == CHOOSE m \in q : \A n \in q : m.id <= n.id

DequeueMessage(h, next_pc) ==
  LET is_oob == oob_queue[h] # {}
      m == First(IF is_oob THEN oob_queue[h] ELSE queue[h])
  IN /\ oob_queue' = [oob_queue EXCEPT ![h] = @ \ {m}]
     /\ queue' = [queue EXCEPT ![h] = @ \ {m}]
     /\ current' = [current EXCEPT ![h] = m]
     /\ oob' = [oob EXCEPT ![h] = is_oob]
     /\ pc' = [pc EXCEPT ![h] = next_pc]

NoneQueued(h) == queue[h] = {} /\ oob_queue[h] = {}

\* Mutant: the live ports are not looked at.
FinishOnlyOnError(h, ok) ==
  /\ task' = [task EXCEPT ![h] = "none"]
  /\ pool' = [pool EXCEPT ![h] = ok]
  /\ pc' = [pc EXCEPT ![h] = IF ok THEN "pool" ELSE "error"]
  /\ current' = [current EXCEPT ![h] = NoMessage]
  /\ oob' = [oob EXCEPT ![h] = FALSE]
  /\ UNCHANGED <<queue, oob_queue>>

\* The end of TaskCallback's critical section.
FinishTask(h, ok) ==
  /\ task' = [task EXCEPT ![h] = "none"]
  /\ pool' = [pool EXCEPT ![h] = ok /\ live_ports[h] > 0]
  /\ pc' = [pc EXCEPT ![h] = IF ~ok THEN "error"
                             ELSE IF live_ports[h] > 0 THEN "pool" ELSE "end"]
  /\ current' = [current EXCEPT ![h] = NoMessage]
  /\ oob' = [oob EXCEPT ![h] = FALSE]
  /\ UNCHANGED <<queue, oob_queue>>

\* TaskCallback from a point where it holds monitor_ and ok is known: the next
\* message, or the end of the task.
HandleMessages(h, ok) ==
  \/ /\ ok /\ ~NoneQueued(h)
     /\ DequeueMessage(h, "handle")
     /\ task' = [task EXCEPT ![h] = "running"]
     /\ UNCHANGED pool
  \/ /\ ~ok \/ NoneQueued(h)
     /\ FinishTask(h, ok)

\* TaskCallback begins.
TaskCallback(h) ==
  /\ task[h] = "accepted"
  /\ \/ /\ start_callback[h]
        /\ task' = [task EXCEPT ![h] = "running"]
        /\ pc' = [pc EXCEPT ![h] = IF h \in ClassIsolates THEN "construct" ELSE "start"]
        /\ UNCHANGED <<queue, oob_queue, pool, current, oob>>
     \/ /\ ~start_callback[h]
        /\ HandleMessages(h, TRUE)
  /\ UNCHANGED <<registryVars, live_ports, start_callback, runs, isolateVars,
                 flushing, posted>>

\* start_callback_ (RunIsolate2, RunIsolate) returns; Dart code may have thrown.
StartCallbackDone(h, ok) ==
  /\ pc[h] = "start" \/ (pc[h] = "construct" /\ ~ok)
  /\ InDart(h)
  /\ start_callback' = [start_callback EXCEPT ![h] = FALSE]
  /\ HandleMessages(h, ok)
  /\ UNCHANGED <<registryVars, live_ports, runs, isolateVars, flushing, posted>>

\* HandleMessage returns; only a normal message of an isolate can fail.
HandleMessageDone(h, ok) ==
  /\ pc[h] = "handle"
  /\ (h \in Isolates /\ ~oob[h]) => InDart(h)
  /\ ~ok => h \in Isolates /\ ~oob[h]
  /\ HandleMessages(h, ok)
  /\ UNCHANGED <<registryVars, live_ports, start_callback, runs, isolateVars,
                 flushing, posted>>

\* Dart_HandleMessage on a thread of the embedder.
HandleNextMessage(h) ==
  /\ h \in MainIsolates /\ pc[h] = "embedder" /\ InDart(h) /\ ~NoneQueued(h)
  /\ DequeueMessage(h, "handle next")
  /\ UNCHANGED <<registryVars, live_ports, pool, task, start_callback, runs,
                 isolateVars, flushing, posted>>

\* It returns after one normal message, an error, or the last OOB message.
HandleNextMessageDone(h) ==
  /\ pc[h] = "handle next"
  /\ \/ /\ oob[h] /\ ~NoneQueued(h)
        /\ DequeueMessage(h, "handle next")
     \/ /\ IF oob[h] THEN NoneQueued(h) ELSE InDart(h)
        /\ pc' = [pc EXCEPT ![h] = "embedder"]
        /\ current' = [current EXCEPT ![h] = NoMessage]
        /\ oob' = [oob EXCEPT ![h] = FALSE]
        /\ UNCHANGED <<queue, oob_queue>>
  /\ UNCHANGED <<registryVars, live_ports, pool, task, start_callback, runs,
                 isolateVars, flushing, posted>>

-----------------------------------------------------------------------------
(* Interrupts and termination.                                             *)

\* A stack check of Dart code finds the interrupt: StackOverflow clears it.
StackCheck(h) ==
  /\ InDart(h) /\ interrupt[h]
  /\ interrupt' = [interrupt EXCEPT ![h] = FALSE]
  /\ opc' = [opc EXCEPT ![h] = "check"]
  /\ UNCHANGED <<registryVars, handlerVars, threadVars, main_port, got_port,
                 ocurrent, flushing, posted>>

\* Mutant: one message for each interrupt.
HandleOneOOBMessage(h) ==
  /\ opc[h] \in {"check", "handle"}
  /\ IF opc[h] = "check" /\ oob_queue[h] # {}
       THEN /\ opc' = [opc EXCEPT ![h] = "handle"]
            /\ ocurrent' = [ocurrent EXCEPT ![h] = First(oob_queue[h])]
            /\ oob_queue' = [oob_queue EXCEPT ![h] = @ \ {First(@)}]
       ELSE /\ opc' = [opc EXCEPT ![h] = "none"]
            /\ ocurrent' = [ocurrent EXCEPT ![h] = NoMessage]
            /\ UNCHANGED oob_queue
  /\ UNCHANGED <<registryVars, queue, live_ports, pool, task, start_callback,
                 threadVars, main_port, got_port, interrupt, flushing, posted>>

\* HandleOOBMessages takes the next message, or returns.
HandleOOBMessages(h) ==
  /\ opc[h] \in {"check", "handle"}
  /\ IF oob_queue[h] # {}
       THEN /\ opc' = [opc EXCEPT ![h] = "handle"]
            /\ ocurrent' = [ocurrent EXCEPT ![h] = First(oob_queue[h])]
            /\ oob_queue' = [oob_queue EXCEPT ![h] = @ \ {First(@)}]
       ELSE /\ opc' = [opc EXCEPT ![h] = "none"]
            /\ ocurrent' = [ocurrent EXCEPT ![h] = NoMessage]
            /\ UNCHANGED oob_queue
  /\ UNCHANGED <<registryVars, queue, live_ports, pool, task, start_callback,
                 threadVars, main_port, got_port, interrupt, flushing, posted>>

\* end_callback_ of an isolate on the pool: RunLoopDone lets Dart_RunLoop
\* return; ShutdownIsolate ends the process after an error.
EndCallback(h) ==
  /\ \/ /\ h \in MainIsolates /\ pc[h] \in {"end", "error"}
        /\ pc' = [pc EXCEPT ![h] = "embedder"]
     \/ /\ h \notin MainIsolates /\ pc[h] = "error"
        /\ pc' = [pc EXCEPT ![h] = "exit"]
  /\ UNCHANGED <<registryVars, handlerVars, current, oob, runs, isolateVars,
                 flushing, posted>>

\* Mutant: the isolate waits until its queues are empty.
ShutdownCounting(h, S) ==
  /\ \/ pc[h] = "embedder" /\ InDart(h)
     \/ h \notin MainIsolates /\ pc[h] = "end"
  /\ ClosePorts(PortsOf(h))
  /\ live_ports' = [live_ports EXCEPT ![h] = @ - Cardinality(S)]
  /\ pc' = [pc EXCEPT ![h] = "closing"]
  /\ UNCHANGED <<queue, oob_queue, pool, task, start_callback, current, oob, runs,
                 isolateVars, flushing, posted>>
ShutdownWhenDrained(h) ==
  NoneQueued(h) /\ ShutdownCounting(h, {p \in PortsOf(h) : live[p]})

\* Isolate::Shutdown, from ShutdownIsolate or the thread that created the
\* isolate: the ports are closed in one critical section of PortMap::mutex_ ...
Shutdown(h) ==
  /\ \/ pc[h] = "embedder" /\ InDart(h)
     \/ h \notin MainIsolates /\ pc[h] = "end"
  /\ ClosePorts(PortsOf(h))
  /\ live_ports' = [live_ports EXCEPT ![h] = @ - Cardinality({p \in PortsOf(h) : live[p]})]
  /\ pc' = [pc EXCEPT ![h] = "closing"]
  /\ UNCHANGED <<queue, oob_queue, pool, task, start_callback, current, oob, runs,
                 isolateVars, flushing, posted>>

\* Mutant: the OOB queue is forgotten.
CloseAllButOOB(h) ==
  /\ pc[h] = "closing"
  /\ queue' = [queue EXCEPT ![h] = {}]
  /\ pc' = [pc EXCEPT ![h] = "flushed"]
  /\ UNCHANGED <<registryVars, oob_queue, live_ports, pool, task, start_callback,
                 current, oob, runs, isolateVars, flushing, posted>>

\* ... CloseAllPorts drops what is queued ...
CloseAllPorts(h) ==
  /\ pc[h] = "closing"
  /\ queue' = [queue EXCEPT ![h] = {}]
  /\ oob_queue' = [oob_queue EXCEPT ![h] = {}]
  /\ pc' = [pc EXCEPT ![h] = "flushed"]
  /\ UNCHANGED <<registryVars, live_ports, pool, task, start_callback, current, oob,
                 runs, isolateVars, flushing, posted>>

\* ... and the handler is deleted.
DeleteHandler(h) ==
  /\ pc[h] = "flushed"
  /\ pc' = [pc EXCEPT ![h] = "deleted"]
  /\ UNCHANGED <<registryVars, handlerVars, current, oob, runs, isolateVars,
                 flushing, posted>>

MHNext ==
  \/ \E h \in Handlers, p \in Ports :
       \/ CreateIsolate(h, p) \/ NewNativePort(h, p)
       \/ \E ok \in BOOLEAN : ReceivePortImpl_factory(h, p, ok)
  \/ \E p \in Ports :
       \/ ClosePort(p) \/ FlushPort(p)
       \/ \E is_oob \in BOOLEAN : PostMessage(p, is_oob)
  \/ \E h \in Handlers :
       \/ GetPort(h) \/ CreateRunPort(h) \/ Run(h) \/ TaskCallback(h)
       \/ \E ok \in BOOLEAN : StartCallbackDone(h, ok) \/ HandleMessageDone(h, ok)
       \/ HandleNextMessage(h) \/ HandleNextMessageDone(h)
       \/ StackCheck(h) \/ HandleOOBMessages(h) \/ EndCallback(h)
       \/ Shutdown(h) \/ CloseAllPorts(h) \/ DeleteHandler(h)

MHSpec == MHInit /\ [][MHNext]_mhVars

-----------------------------------------------------------------------------
(* Fairness.                                                               *)

\* What goes on whatever Dart code does: the pool starts accepted tasks, the
\* threads of the runtime take their next step, and running Dart code checks its
\* stack at every call and loop iteration.
RuntimeFairness ==
  /\ \A p \in Ports : WF_mhVars(FlushPort(p))
  /\ \A h \in Handlers :
       /\ WF_mhVars(TaskCallback(h))
       /\ WF_mhVars(StackCheck(h))
       /\ WF_mhVars(HandleOOBMessages(h))
       /\ WF_mhVars(oob[h] /\ HandleMessageDone(h, TRUE))
       /\ WF_mhVars(EndCallback(h))
       /\ WF_mhVars(pc[h] = "end" /\ Shutdown(h))
       /\ WF_mhVars((CloseAllPorts(h) \/ DeleteHandler(h)))

\* The Dart code of start functions and message handlers returns, which only
\* MessagesServed needs.
DartFairness ==
  \A h \in Handlers :
    /\ WF_mhVars(CreateRunPort(h))
    /\ WF_mhVars(\E ok \in BOOLEAN : StartCallbackDone(h, ok))
    /\ WF_mhVars(\E ok \in BOOLEAN : HandleMessageDone(h, ok))

FairSpec == MHSpec /\ RuntimeFairness

-----------------------------------------------------------------------------
(* Properties.                                                             *)

\* ShutdownIsolate has found a sticky error and called exit(255).  Other threads
\* may go on while exit runs; nothing has to happen any more.
Exited == \E h \in Handlers : pc[h] = "exit"

\* The states of a handler that is running on the pool.
OnPool(h) == pc[h] \in {"pool", "construct", "start", "handle"}

\* No wakeup is lost: while a handler runs on the pool, a message in one of its
\* queues means that a task of it is in the pool or about to look at the queues
\* again (task_ in PostMessage and TaskCallback).
NoLostWakeup ==
  \A h \in Handlers : pool[h] /\ ~NoneQueued(h) => task[h] # "none"

\* One thread at a time runs a handler: a task waits in the pool only while the
\* handler is at rest, never while a thread of the pool or of the embedder runs
\* its code or after its last task.
OneThread ==
  \A h \in Handlers :
    /\ task[h] = "accepted" => pc[h] = "pool"
    /\ task[h] = "running" => OnPool(h) /\ pc[h] # "pool"
    /\ pool[h] => OnPool(h)

\* A message waits only for a port that is open or whose closing has yet to flush
\* the queues: closing a port drops its messages, and none comes after the flush.
QueuedForOpenPort ==
  \A h \in Handlers : \A m \in queue[h] \cup oob_queue[h] :
    \/ owner[m.port] = h
    \/ flushing[m.port] = h
    \/ pc[h] = "closing"

\* When Isolate::Shutdown deletes the handler its queues are empty (the assertion
\* of ~MessageQueue), no port leads to it, no task of it is left and no thread is
\* about to flush its queues.
DeleteIsClean ==
  \A h \in Handlers : pc[h] \in {"flushed", "deleted"} =>
    /\ NoneQueued(h) /\ PortsOf(h) = {} /\ task[h] = "none"
    /\ \A p \in Ports : flushing[p] # h

\* A handler that stays on the pool without a task has a live port left through
\* which it can be reached; otherwise Run has ended it (message_handler.h:33-35).
RunsWhileLive ==
  \A h \in Isolates : pc[h] = "pool" /\ task[h] = "none" =>
    \E p \in PortsOf(h) : live[p]

\* An isolate in Dart code with an OOB message waiting has the interrupt pending,
\* or is in HandleOOBMessages and will look again ("Handle out of band messages
\* even if the isolate is busy").
OOBInterrupts ==
  \A h \in Isolates : oob_queue[h] # {} /\ pc[h] # "closing" =>
    interrupt[h] \/ opc[h] # "none"

\* If Dart code returns, every message for a handler on the pool is handled or
\* dropped, or the handler leaves the pool.
MessagesServed ==
  DartFairness =>
    \A h \in Handlers, n \in 0 .. MaxPosts - 1 :
      (pool[h] /\ \E m \in queue[h] \cup oob_queue[h] : m.id = n)
        ~> (Exited \/ ~pool[h] \/ \A m \in queue[h] \cup oob_queue[h] : m.id # n)

\* An OOB message is served even if the Dart code that runs never returns.
OOBServed ==
  \A h \in Isolates, n \in 0 .. MaxPosts - 1 :
    (pool[h] /\ \E m \in oob_queue[h] : m.id = n)
      ~> (Exited \/ ~pool[h] \/ \A m \in oob_queue[h] : m.id # n)

\* A spawned isolate that has ended is shut down and deleted.
EndedIsDeleted ==
  \A h \in FunctionIsolates \cup ClassIsolates :
    pc[h] = "end" ~> pc[h] = "deleted" \/ Exited
=============================================================================
