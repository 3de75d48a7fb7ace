------------------------ MODULE MessageHandlerProofs ------------------------
(***************************************************************************)
(* The safety theorems about MessageHandler, for any number of isolates,   *)
(* native ports, ports, messages and calls of Dart_RunLoop; and about the  *)
(* interrupts by which an OOB message reaches an isolate, for every word   *)
(* size and all stack limits.                                              *)
(***************************************************************************)
EXTENDS MessageHandler, Interrupts, FiniteSetTheorems, TLAPS

\* Zenon for a moment, then SMT, then Zenon for longer.
USE ZenonT(2), SMTT(30), ZenonT(30)

-----------------------------------------------------------------------------
(* The inductive invariant.                                                *)

PCs == {"unborn", "embedder", "pool", "construct", "start", "handle", "handle next",
        "end", "error", "closing", "flushed", "deleted", "exit"}

\* The types of the variables that the guards read.
MHTypeOK ==
  /\ owner \in [Ports -> Handlers \cup {NoHandler}]
  /\ live \in [Ports -> BOOLEAN]
  /\ used_ids \subseteq Ports /\ IsFiniteSet(used_ids)
  /\ queue \in [Handlers -> SUBSET Message]
  /\ oob_queue \in [Handlers -> SUBSET Message]
  /\ live_ports \in [Handlers -> Int]
  /\ pool \in [Handlers -> BOOLEAN]
  /\ task \in [Handlers -> {"none", "accepted", "running"}]
  /\ start_callback \in [Handlers -> BOOLEAN]
  /\ pc \in [Handlers -> PCs]
  /\ oob \in [Handlers -> BOOLEAN]
  /\ main_port \in [Handlers -> Ports \cup {NoPort}]
  /\ got_port \in [Handlers -> BOOLEAN]
  /\ interrupt \in [Handlers -> BOOLEAN]
  /\ opc \in [Handlers -> {"none", "check", "handle"}]
  /\ flushing \in [Ports -> Handlers \cup {NoHandler}]
  /\ posted \in Nat

\* task_, pool_ and start_callback_ tell where the thread of the handler is.
ThreadInv ==
  \A h \in Handlers :
    /\ pool[h] <=> OnPool(h)
    /\ task[h] = "running" <=> pc[h] \in {"construct", "start", "handle"}
    /\ task[h] = "accepted" => pc[h] = "pool"
    /\ start_callback[h] => /\ h \in FunctionIsolates \cup ClassIsolates
                            /\ pc[h] \in {"pool", "construct", "start"}
                            /\ pc[h] = "pool" => task[h] = "accepted"
    /\ pc[h] \in {"construct", "start"} => start_callback[h]
    /\ pc[h] = "pool" /\ task[h] = "none" => live_ports[h] > 0

\* A native port runs nothing but its messages.  Its one live port is counted
\* for ever, so the port map never deletes it.
NativeInv ==
  \A h \in NativePorts :
    /\ pc[h] \in {"unborn", "embedder", "pool", "handle"}
    /\ opc[h] = "none"
    /\ pc[h] # "unborn" => live_ports[h] = 1

\* An id that was given out belongs to one handler, then to nobody; only the
\* ports of isolates are live, and a handler has ports only between its
\* constructor and its shutdown.
PortInv ==
  \A p \in Ports :
    /\ p \notin used_ids => owner[p] = NoHandler /\ flushing[p] = NoHandler
    /\ flushing[p] # NoHandler => owner[p] = NoHandler
    /\ live[p] => owner[p] \in Isolates
    /\ owner[p] # NoHandler => pc[owner[p]] \notin {"unborn", "closing", "flushed", "deleted"}

\* The thread of isolate h is where it executes Dart code.
InDartCode(h) ==
  \/ pc[h] \in {"embedder", "construct", "start"}
  \/ pc[h] \in {"handle", "handle next"} /\ ~oob[h]

\* HandleOOBMessages and the rest of ClosePort are called from Dart code, and
\* it does not go on before they return.
CallInv ==
  /\ \A h \in Isolates : opc[h] # "none" => InDartCode(h)
  /\ \A p \in Ports : flushing[p] \in Isolates => InDartCode(flushing[p])
  /\ \A p \in Ports : flushing[p] \in NativePorts => pc[flushing[p]] # "unborn"

\* The main port of an isolate is its own until it is closed.
MainPortInv ==
  \A h \in Isolates : pc[h] # "unborn" =>
    main_port[h] \in used_ids /\ owner[main_port[h]] \in {h, NoHandler}

\* Nothing is queued before the constructor and after CloseAllPorts.
QueueInv ==
  \A h \in Handlers : pc[h] \in {"unborn", "flushed", "deleted"} => NoneQueued(h)

IndInv ==
  /\ MHTypeOK /\ ThreadInv /\ NativeInv /\ PortInv /\ MainPortInv
  /\ CallInv /\ QueueInv
  /\ NoLostWakeup /\ QueuedForOpenPort /\ OOBInterrupts

-----------------------------------------------------------------------------
(* The count of live ports, if class isolates do not use the getter `port'. *)

LivePorts(h) == {p \in PortsOf(h) : live[p]}

\* The main port is still to be made live, by the getter or by RunIsolate.
MainPortUnset(h) ==
  IF h \in ClassIsolates
  THEN \/ pc[h] \in {"embedder", "construct"}
       \/ pc[h] = "pool" /\ start_callback[h]
  ELSE ~got_port[h]

\* live_ports_ is the number of live ports, and the main port is made live once.
CountInv ==
  \A h \in Isolates :
    /\ live_ports[h] = Cardinality(LivePorts(h))
    /\ pc[h] # "unborn" /\ MainPortUnset(h) => ~live[main_port[h]]
    /\ pc[h] = "construct" => h \in ClassIsolates
    /\ pc[h] = "handle next" => h \in MainIsolates

-----------------------------------------------------------------------------
(* The steps.                                                              *)

USE DEF registryVars, handlerVars, threadVars, isolateVars

\* No message loses its place if queues only shrink, open ports stay with their
\* handlers and no flush ends.
LEMMA QueuedKept ==
  ASSUME IndInv,
         \A k \in Handlers : /\ queue'[k] \subseteq queue[k]
                             /\ oob_queue'[k] \subseteq oob_queue[k]
                             /\ pc[k] = "closing" => pc'[k] = "closing",
         \A q \in Open : owner'[q] = owner[q],
         UNCHANGED flushing
  PROVE  QueuedForOpenPort'
<1>. SUFFICES ASSUME NEW k \in Handlers, NEW m \in queue'[k] \cup oob_queue'[k]
              PROVE  owner'[m.port] = k \/ flushing'[m.port] = k \/ pc'[k] = "closing"
  BY DEF QueuedForOpenPort
<1>1. m \in Message /\ m \in queue[k] \cup oob_queue[k]
  BY DEF IndInv, MHTypeOK
<1>2. m.port \in Ports
  BY <1>1 DEF Message
<1>3. owner[m.port] = k \/ flushing[m.port] = k \/ pc[k] = "closing"
  BY <1>1 DEF IndInv, QueuedForOpenPort
<1>4. owner[m.port] = k => owner'[m.port] = k
  BY <1>2, HandlerAssumption DEF Open
<1>. QED
  BY <1>3, <1>4

LEMMA CreateIsolateInd ==
  ASSUME IndInv, NEW h \in Handlers, NEW p \in Ports, CreateIsolate(h, p)
  PROVE  IndInv'
<1>1. MHTypeOK'
  <2>1. IsFiniteSet(used_ids')
    BY FS_AddElement DEF IndInv, MHTypeOK, CreateIsolate, CreatePort
  <2>. QED
    BY <2>1, ZenonT(30) DEF IndInv, MHTypeOK, PCs, CreateIsolate, CreatePort
<1>2. ThreadInv'
  BY MessageAssumption DEF IndInv, MHTypeOK, ThreadInv, OnPool, Isolates, CreateIsolate
<1>3. NativeInv'
  BY MessageAssumption DEF IndInv, MHTypeOK, NativeInv, Isolates, CreateIsolate
<1>4. PortInv'
  BY MessageAssumption, HandlerAssumption
  DEF IndInv, MHTypeOK, PortInv, Isolates, CreateIsolate, CreatePort
<1>5. CallInv'
  BY MessageAssumption, HandlerAssumption, ZenonT(30)
  DEF IndInv, MHTypeOK, CallInv, InDartCode, Isolates, CreateIsolate
<1>6. QueueInv' /\ NoLostWakeup' /\ OOBInterrupts'
  BY MessageAssumption DEF IndInv, MHTypeOK, QueueInv, NoLostWakeup, OOBInterrupts,
     NoneQueued, Isolates, CreateIsolate
<1>7. QueuedForOpenPort'
  BY QueuedKept DEF IndInv, MHTypeOK, PortInv, Open, CreateIsolate, CreatePort
<1>8. MainPortInv'
  BY MessageAssumption, HandlerAssumption
  DEF IndInv, MHTypeOK, MainPortInv, Isolates, CreateIsolate, CreatePort
<1>. QED
  BY <1>1, <1>2, <1>3, <1>4, <1>5, <1>6, <1>7, <1>8 DEF IndInv

LEMMA NewNativePortInd ==
  ASSUME IndInv, NEW h \in Handlers, NEW p \in Ports, NewNativePort(h, p)
  PROVE  IndInv'
<1>1. MHTypeOK'
  <2>1. IsFiniteSet(used_ids')
    BY FS_AddElement DEF IndInv, MHTypeOK, NewNativePort, CreatePort
  <2>2. live_ports' \in [Handlers -> Int]
    BY DEF IndInv, MHTypeOK, NewNativePort
  <2>. QED
    BY <2>1, <2>2, ZenonT(30) DEF IndInv, MHTypeOK, PCs, NewNativePort, CreatePort
<1>2. ThreadInv'
  BY MessageAssumption DEF IndInv, MHTypeOK, ThreadInv, OnPool, Isolates, NewNativePort
<1>3. NativeInv'
  BY MessageAssumption DEF IndInv, MHTypeOK, NativeInv, Isolates, NewNativePort
<1>4. PortInv'
  BY MessageAssumption, HandlerAssumption
  DEF IndInv, MHTypeOK, PortInv, Isolates, NewNativePort, CreatePort
<1>5. CallInv'
  BY MessageAssumption, HandlerAssumption, ZenonT(30)
  DEF IndInv, MHTypeOK, CallInv, InDartCode, Isolates, NewNativePort
<1>6. QueueInv' /\ NoLostWakeup' /\ OOBInterrupts'
  BY MessageAssumption DEF IndInv, MHTypeOK, QueueInv, NoLostWakeup, OOBInterrupts,
     NoneQueued, Isolates, NewNativePort
<1>7. QueuedForOpenPort'
  BY QueuedKept DEF IndInv, MHTypeOK, PortInv, Open, NewNativePort, CreatePort
<1>8. MainPortInv'
  BY MessageAssumption, HandlerAssumption
  DEF IndInv, MHTypeOK, MainPortInv, Isolates, NewNativePort, CreatePort
<1>. QED
  BY <1>1, <1>2, <1>3, <1>4, <1>5, <1>6, <1>7, <1>8 DEF IndInv

LEMMA ReceivePortImpl_factoryInd ==
  ASSUME IndInv, NEW h \in Handlers, NEW p \in Ports, NEW ok \in BOOLEAN,
         ReceivePortImpl_factory(h, p, ok)
  PROVE  IndInv'
<1>1. MHTypeOK'
  <2>1. IsFiniteSet(used_ids')
    BY FS_AddElement DEF IndInv, MHTypeOK, ReceivePortImpl_factory
  <2>. QED
    BY <2>1 DEF IndInv, MHTypeOK, ReceivePortImpl_factory
<1>2. ThreadInv'
  BY DEF IndInv, MHTypeOK, ThreadInv, OnPool, ReceivePortImpl_factory
<1>3. NativeInv'
  <2>1. h \notin NativePorts
    BY MessageAssumption, ZenonT(30) DEF ReceivePortImpl_factory, InDart
  <2>. QED
    BY <2>1, MessageAssumption DEF IndInv, MHTypeOK, NativeInv, ReceivePortImpl_factory
<1>4. PortInv'
  BY HandlerAssumption, ZenonT(30)
  DEF IndInv, MHTypeOK, PortInv, ReceivePortImpl_factory, InDart
<1>5. CallInv'
  BY ZenonT(30) DEF IndInv, CallInv, InDartCode, ReceivePortImpl_factory
<1>6. QueueInv' /\ NoLostWakeup' /\ OOBInterrupts'
  BY DEF IndInv, QueueInv, NoLostWakeup, OOBInterrupts, NoneQueued,
     ReceivePortImpl_factory
<1>7. QueuedForOpenPort'
  BY QueuedKept DEF IndInv, MHTypeOK, PortInv, Open, ReceivePortImpl_factory
<1>8. MainPortInv'
  BY MessageAssumption, HandlerAssumption
  DEF IndInv, MHTypeOK, MainPortInv, Isolates, ReceivePortImpl_factory
<1>. QED
  BY <1>1, <1>2, <1>3, <1>4, <1>5, <1>6, <1>7, <1>8 DEF IndInv

LEMMA ClosePortInd ==
  ASSUME IndInv, NEW p \in Ports, ClosePort(p)
  PROVE  IndInv'
<1>. DEFINE h == owner[p]
<1>1. h \in Handlers /\ h # NoHandler /\ p \in used_ids /\ flushing[p] = NoHandler
  BY HandlerAssumption DEF IndInv, MHTypeOK, PortInv, ClosePort, Open
<1>2. h \in NativePorts => ~live[p] /\ pc[h] # "unborn"
  BY <1>1, MessageAssumption DEF IndInv, PortInv
<1>3. h \in Isolates => InDartCode(h) /\ opc[h] = "none"
  BY <1>1, MessageAssumption, ZenonT(30) DEF ClosePort, InDart, InDartCode
<1>4. live_ports' = [live_ports EXCEPT ![h] = IF live[p] THEN @ - 1 ELSE @]
  BY DEF ClosePort
<1>5. flushing' = [flushing EXCEPT ![p] = h]
  BY DEF ClosePort
<1>6. /\ owner' = [q \in Ports |-> IF q = p THEN NoHandler ELSE owner[q]]
      /\ live' = [q \in Ports |-> live[q] /\ q # p]
      /\ UNCHANGED used_ids
  BY ZenonT(30) DEF ClosePort, ClosePorts
<1>7. UNCHANGED <<queue, oob_queue, pool, task, start_callback, pc, oob,
                  main_port, got_port, interrupt, opc, posted>>
  BY DEF ClosePort
<1>. HIDE DEF h
<1>8. MHTypeOK'
  BY <1>1, <1>4, <1>5, <1>6, <1>7 DEF IndInv, MHTypeOK
<1>9. ThreadInv'
  BY <1>1, <1>2, <1>3, <1>4, <1>7, MessageAssumption, ZenonT(30)
  DEF IndInv, MHTypeOK, ThreadInv, OnPool, InDartCode
<1>10. NativeInv'
  BY <1>1, <1>2, <1>4, <1>7, MessageAssumption DEF IndInv, MHTypeOK, NativeInv
<1>11. PortInv'
  BY <1>1, <1>5, <1>6, <1>7, HandlerAssumption, ZenonT(30) DEF IndInv, MHTypeOK, PortInv
<1>12. MainPortInv'
  BY <1>1, <1>6, <1>7, MessageAssumption, HandlerAssumption DEF IndInv, MHTypeOK, MainPortInv
<1>13. CallInv'
  BY <1>1, <1>2, <1>3, <1>5, <1>7, ZenonT(30) DEF IndInv, MHTypeOK, CallInv, InDartCode
<1>14. QueueInv' /\ NoLostWakeup' /\ OOBInterrupts'
  BY <1>7, ZenonT(30) DEF IndInv, QueueInv, NoLostWakeup, OOBInterrupts, NoneQueued
<1>15. QueuedForOpenPort'
  <2>. SUFFICES ASSUME NEW k \in Handlers, NEW m \in queue[k] \cup oob_queue[k]
                PROVE  owner'[m.port] = k \/ flushing'[m.port] = k \/ pc'[k] = "closing"
    BY <1>7 DEF QueuedForOpenPort
  <2>1. m.port \in Ports
    BY DEF IndInv, MHTypeOK, Message
  <2>2. owner[m.port] = k \/ flushing[m.port] = k \/ pc[k] = "closing"
    BY DEF IndInv, QueuedForOpenPort
  <2>. QED
    BY <1>1, <1>5, <1>6, <1>7, <2>1, <2>2, HandlerAssumption DEF IndInv, MHTypeOK, h
<1>. QED
  BY <1>8, <1>9, <1>10, <1>11, <1>12, <1>13, <1>14, <1>15 DEF IndInv

LEMMA FlushPortInd ==
  ASSUME IndInv, NEW p \in Ports, FlushPort(p)
  PROVE  IndInv'
<1>. DEFINE h == flushing[p]
<1>1. h \in Handlers /\ h # NoHandler /\ owner[p] = NoHandler
  BY DEF IndInv, MHTypeOK, PortInv, FlushPort
<1>2. pc' = [pc EXCEPT ![h] = IF h \in NativePorts /\ live_ports[h] = 0
                                THEN "deleted" ELSE @]
  BY DEF FlushPort
<1>3. /\ queue' = [queue EXCEPT ![h] = {m \in @ : m.port # p}]
      /\ oob_queue' = [oob_queue EXCEPT ![h] = {m \in @ : m.port # p}]
      /\ flushing' = [flushing EXCEPT ![p] = NoHandler]
  BY DEF FlushPort
<1>4. UNCHANGED <<owner, live, used_ids, live_ports, pool, task, start_callback, oob,
                  main_port, got_port, interrupt, opc, posted>>
  BY DEF FlushPort
<1>. HIDE DEF h
<1>5. UNCHANGED pc
  <2>1. h \in NativePorts => live_ports[h] = 1
    BY <1>1 DEF IndInv, NativeInv, CallInv, h
  <2>. QED
    BY <1>1, <1>2, <2>1 DEF IndInv, MHTypeOK
<1>6. MHTypeOK'
  BY <1>1, <1>3, <1>4, <1>5 DEF IndInv, MHTypeOK
<1>7. ThreadInv' /\ NativeInv' /\ MainPortInv'
  BY <1>4, <1>5 DEF IndInv, ThreadInv, OnPool, NativeInv, MainPortInv
<1>8. PortInv'
  BY <1>3, <1>4, <1>5 DEF IndInv, MHTypeOK, PortInv
<1>9. CallInv'
  <2>1. \A q \in Ports : flushing'[q] = flushing[q] \/ flushing'[q] = NoHandler
    BY <1>3 DEF IndInv, MHTypeOK
  <2>2. NoHandler \notin Isolates /\ NoHandler \notin NativePorts
    BY MessageAssumption, HandlerAssumption
  <2>. QED
    BY <1>4, <1>5, <2>1, <2>2, ZenonT(30) DEF IndInv, CallInv, InDartCode
<1>10. QueueInv' /\ NoLostWakeup' /\ OOBInterrupts'
  BY <1>1, <1>3, <1>4, <1>5, MessageAssumption
  DEF IndInv, MHTypeOK, QueueInv, NoLostWakeup, OOBInterrupts, NoneQueued
<1>11. QueuedForOpenPort'
  <2>. SUFFICES ASSUME NEW k \in Handlers, NEW m \in queue'[k] \cup oob_queue'[k]
                PROVE  owner'[m.port] = k \/ flushing'[m.port] = k \/ pc'[k] = "closing"
    BY ZenonT(30) DEF QueuedForOpenPort
  <2>1. m \in queue[k] \cup oob_queue[k] /\ (k = h => m.port # p)
    BY <1>1, <1>3 DEF IndInv, MHTypeOK
  <2>2. m.port \in Ports
    BY <2>1 DEF IndInv, MHTypeOK, Message
  <2>3. owner[m.port] = k \/ flushing[m.port] = k \/ pc[k] = "closing"
    BY <2>1 DEF IndInv, QueuedForOpenPort
  <2>. QED
    BY <1>1, <1>3, <1>4, <1>5, <2>1, <2>2, <2>3 DEF IndInv, MHTypeOK, h
<1>. QED
  BY <1>6, <1>7, <1>8, <1>9, <1>10, <1>11 DEF IndInv

LEMMA PostMessageInd ==
  ASSUME IndInv, NEW p \in Ports, NEW is_oob \in BOOLEAN, PostMessage(p, is_oob)
  PROVE  IndInv'
<1>. DEFINE h == owner[p]
            m == [id |-> posted, port |-> p]
<1>1. h \in Handlers /\ h # NoHandler /\ (is_oob => h \in Isolates)
  BY DEF IndInv, MHTypeOK, PostMessage, Open
<1>2. pc[h] \notin {"unborn", "closing", "flushed", "deleted"}
  BY <1>1 DEF IndInv, PortInv
<1>3. /\ queue' = [queue EXCEPT ![h] = IF is_oob THEN @ ELSE @ \cup {m}]
      /\ oob_queue' = [oob_queue EXCEPT ![h] = IF is_oob THEN @ \cup {m} ELSE @]
      /\ posted' = posted + 1
  BY DEF PostMessage
<1>4. task' = [task EXCEPT ![h] = IF pool[h] /\ @ = "none" THEN "accepted" ELSE @]
  BY DEF PostMessage
<1>5. interrupt' = [interrupt EXCEPT ![h] = @ \/ is_oob]
  BY DEF PostMessage
<1>6. UNCHANGED <<owner, live, used_ids, live_ports, pool, start_callback, pc, oob,
                  main_port, got_port, opc, flushing>>
  BY DEF PostMessage
<1>7. m \in Message /\ m.port = p
  BY DEF IndInv, MHTypeOK, Message
<1>. HIDE DEF h, m
<1>8. MHTypeOK'
  BY <1>1, <1>3, <1>4, <1>5, <1>6, <1>7 DEF IndInv, MHTypeOK
<1>9. ThreadInv'
  BY <1>1, <1>4, <1>6 DEF IndInv, MHTypeOK, ThreadInv, OnPool
<1>10. NativeInv' /\ PortInv' /\ MainPortInv' /\ CallInv'
  BY <1>6, ZenonT(30) DEF IndInv, NativeInv, PortInv, MainPortInv, CallInv, InDartCode
<1>11. QueueInv'
  BY <1>1, <1>2, <1>3, <1>6 DEF IndInv, MHTypeOK, QueueInv, NoneQueued
<1>12. NoLostWakeup'
  BY <1>1, <1>3, <1>4, <1>6 DEF IndInv, MHTypeOK, NoLostWakeup, NoneQueued
<1>13. OOBInterrupts'
  BY <1>1, <1>3, <1>5, <1>6, MessageAssumption DEF IndInv, MHTypeOK, OOBInterrupts
<1>14. QueuedForOpenPort'
  <2>. SUFFICES ASSUME NEW k \in Handlers, NEW n \in queue'[k] \cup oob_queue'[k]
                PROVE  owner'[n.port] = k \/ flushing'[n.port] = k \/ pc'[k] = "closing"
    BY DEF QueuedForOpenPort
  <2>1. n \in queue[k] \cup oob_queue[k] \/ (n = m /\ k = h)
    BY <1>1, <1>3 DEF IndInv, MHTypeOK
  <2>. QED
    BY <1>6, <1>7, <2>1, ZenonT(30) DEF IndInv, QueuedForOpenPort, h
<1>. QED
  BY <1>8, <1>9, <1>10, <1>11, <1>12, <1>13, <1>14 DEF IndInv

\* Making the main port live, in the getter `port' and in RunIsolate.
LEMMA SetMainPortLiveInd ==
  ASSUME IndInv, NEW h \in Isolates, InDart(h), SetMainPortLive(h),
         got_port' \in [Handlers -> BOOLEAN],
         \/ UNCHANGED pc
         \/ pc[h] = "construct" /\ pc' = [pc EXCEPT ![h] = "start"]
  PROVE  IndInv'
<1>. DEFINE p == main_port[h]
<1>1. h \in Handlers /\ h \notin NativePorts /\ h # NoHandler /\ InDartCode(h) /\ opc[h] = "none"
  BY MessageAssumption, HandlerAssumption, ZenonT(30) DEF InDart, InDartCode
<1>2. p \in Ports /\ owner[p] = h
  BY <1>1, ZenonT(30) DEF IndInv, MainPortInv, InDartCode, SetMainPortLive, SetLive, Open
<1>3. /\ live' = [live EXCEPT ![p] = TRUE]
      /\ live_ports' = [live_ports EXCEPT ![h] = @ + 1]
  BY DEF SetMainPortLive, SetLive
<1>4. UNCHANGED <<owner, used_ids, queue, oob_queue, pool, task, start_callback, oob,
                  main_port, interrupt, opc, flushing, posted>>
  BY DEF SetMainPortLive, SetLive
<1>. HIDE DEF p
<1>5. MHTypeOK'
  <2>1. pc' \in [Handlers -> PCs]
    BY <1>1, ZenonT(30) DEF IndInv, MHTypeOK, PCs
  <2>2. live' \in [Ports -> BOOLEAN] /\ live_ports' \in [Handlers -> Int]
    BY <1>1, <1>2, <1>3 DEF IndInv, MHTypeOK
  <2>. QED
    BY <1>4, <2>1, <2>2 DEF IndInv, MHTypeOK
<1>6. ThreadInv'
  <2>1. /\ \A k \in Handlers : k # h => pc'[k] = pc[k] /\ live_ports'[k] = live_ports[k]
        /\ pc'[h] = pc[h] \/ (pc[h] = "construct" /\ pc'[h] = "start")
    BY <1>1, <1>3 DEF IndInv, MHTypeOK
  <2>2. pc[h] # "pool"
    BY <1>1, ZenonT(30) DEF InDartCode
  <2>. QED
    BY <1>1, <1>4, <2>1, <2>2, ZenonT(30) DEF IndInv, ThreadInv, OnPool
<1>7. NativeInv'
  BY <1>1, <1>3, <1>4, MessageAssumption DEF IndInv, MHTypeOK, NativeInv
<1>8. PortInv'
  BY <1>1, <1>2, <1>3, <1>4 DEF IndInv, MHTypeOK, PortInv
<1>9. MainPortInv'
  BY <1>1, <1>4, MessageAssumption DEF IndInv, MHTypeOK, MainPortInv
<1>10. CallInv'
  <2>1. \A k \in Handlers : /\ InDartCode(k) => InDartCode(k)'
                            /\ pc[k] # "unborn" => pc'[k] # "unborn"
    BY <1>1, <1>4, ZenonT(30) DEF IndInv, MHTypeOK, InDartCode
  <2>. QED
    BY <1>4, <2>1, MessageAssumption DEF IndInv, CallInv
<1>11. QueueInv' /\ NoLostWakeup' /\ OOBInterrupts'
  BY <1>1, <1>4, MessageAssumption
  DEF IndInv, MHTypeOK, QueueInv, NoLostWakeup, OOBInterrupts, NoneQueued
<1>12. QueuedForOpenPort'
  BY <1>1, <1>4, QueuedKept DEF IndInv, MHTypeOK
<1>. QED
  BY <1>5, <1>6, <1>7, <1>8, <1>9, <1>10, <1>11, <1>12 DEF IndInv

LEMMA GetPortInd ==
  ASSUME IndInv, NEW h \in Handlers, GetPort(h)
  PROVE  IndInv'
BY SetMainPortLiveInd, ZenonT(30) DEF IndInv, MHTypeOK, GetPort, InDart

LEMMA CreateRunPortInd ==
  ASSUME IndInv, NEW h \in Handlers, CreateRunPort(h)
  PROVE  IndInv'
BY SetMainPortLiveInd, ZenonT(30) DEF IndInv, MHTypeOK, CreateRunPort, InDart

LEMMA RunInd ==
  ASSUME IndInv, NEW h \in Handlers, Run(h)
  PROVE  IndInv'
<1>1. pc[h] = "embedder" /\ (h \in Isolates => opc[h] = "none" /\ \A p \in Ports : flushing[p] # h)
  BY ZenonT(30) DEF Run, InDart
<1>2. /\ pool' = [pool EXCEPT ![h] = TRUE]
      /\ task' = [task EXCEPT ![h] = "accepted"]
      /\ pc' = [pc EXCEPT ![h] = "pool"]
  BY DEF Run
<1>3. start_callback' = [start_callback EXCEPT ![h] = h \in FunctionIsolates \cup ClassIsolates]
  BY DEF Run
<1>4. UNCHANGED <<owner, live, used_ids, queue, oob_queue, live_ports, oob, main_port,
                  got_port, interrupt, opc, flushing, posted>>
  BY DEF Run
<1>5. MHTypeOK'
  <2>1. start_callback' \in [Handlers -> BOOLEAN]
    BY <1>3 DEF IndInv, MHTypeOK
  <2>. QED
    BY <1>2, <1>4, <2>1, ZenonT(30) DEF IndInv, MHTypeOK, PCs
<1>6. ThreadInv'
  BY <1>1, <1>2, <1>3, <1>4 DEF IndInv, MHTypeOK, ThreadInv, OnPool
<1>7. NativeInv'
  BY <1>1, <1>2, <1>4, MessageAssumption DEF IndInv, MHTypeOK, NativeInv
<1>8. PortInv' /\ MainPortInv'
  BY <1>1, <1>2, <1>4, MessageAssumption DEF IndInv, MHTypeOK, PortInv, MainPortInv
<1>9. CallInv'
  BY <1>1, <1>2, <1>4, MessageAssumption, ZenonT(30) DEF IndInv, MHTypeOK, CallInv, InDartCode
<1>10. QueueInv' /\ NoLostWakeup' /\ OOBInterrupts'
  BY <1>1, <1>2, <1>4, MessageAssumption
  DEF IndInv, MHTypeOK, QueueInv, NoLostWakeup, OOBInterrupts, NoneQueued
<1>11. QueuedForOpenPort'
  BY <1>1, <1>2, <1>4, QueuedKept DEF IndInv, MHTypeOK
<1>. QED
  BY <1>5, <1>6, <1>7, <1>8, <1>9, <1>10, <1>11 DEF IndInv

\* A step that changes no port and leaves the handlers with ports alive.
LEMMA PortsKept ==
  ASSUME IndInv, UNCHANGED <<owner, live, used_ids, flushing, main_port>>,
         \A k \in Handlers :
           /\ pc[k] = "unborn" => pc'[k] = "unborn"
           /\ pc'[k] \in {"unborn", "closing", "flushed", "deleted"} => pc'[k] = pc[k]
  PROVE  PortInv' /\ MainPortInv'
<1>1. PortInv'
  BY DEF IndInv, MHTypeOK, PortInv
<1>2. MainPortInv'
  BY MessageAssumption DEF IndInv, MainPortInv
<1>. QED
  BY <1>1, <1>2

\* TaskCallback holds monitor_, the thread has left Dart code, and the start
\* callback is done: the next message is taken, or the task ends.
LEMMA HandleMessagesInd ==
  ASSUME IndInv, NEW h \in Handlers, NEW ok \in BOOLEAN, HandleMessages(h, ok),
         OnPool(h), pc[h] = "pool" => task[h] = "accepted",
         ~ok => h \in Isolates,
         h \in Isolates => opc[h] = "none" /\ \A p \in Ports : flushing[p] # h,
         start_callback' = [start_callback EXCEPT ![h] = FALSE],
         UNCHANGED <<registryVars, live_ports, runs, isolateVars, flushing, posted>>
  PROVE  IndInv'
<1>1. UNCHANGED <<owner, live, used_ids, live_ports, main_port, got_port, interrupt, opc,
                  flushing, posted>>
  OBVIOUS
<1>2. pool[h] /\ pc[h] \in {"pool", "construct", "start", "handle"}
  BY DEF IndInv, ThreadInv, OnPool
<1>3. CASE ok /\ ~NoneQueued(h) /\ DequeueMessage(h, "handle")
           /\ task' = [task EXCEPT ![h] = "running"] /\ UNCHANGED pool
  <2>1. PICK m :
          /\ queue' = [queue EXCEPT ![h] = @ \ {m}]
          /\ oob_queue' = [oob_queue EXCEPT ![h] = @ \ {m}]
          /\ oob' = [oob EXCEPT ![h] = (oob_queue[h] # {})]
          /\ pc' = [pc EXCEPT ![h] = "handle"]
    BY <1>3, ZenonT(30) DEF DequeueMessage
  <2>2. MHTypeOK'
    BY <1>1, <1>3, <2>1, ZenonT(30) DEF IndInv, MHTypeOK, PCs
  <2>3. ThreadInv'
    BY <1>1, <1>2, <1>3, <2>1 DEF IndInv, MHTypeOK, ThreadInv, OnPool
  <2>4. NativeInv'
    BY <1>1, <1>2, <2>1, MessageAssumption DEF IndInv, MHTypeOK, NativeInv
  <2>5. PortInv' /\ MainPortInv'
    <3>1. \A k \in Handlers : pc'[k] = pc[k] \/ (k = h /\ pc'[k] = "handle")
      BY <2>1 DEF IndInv, MHTypeOK
    <3>. QED
      BY <1>1, <1>2, <3>1, PortsKept, ZenonT(30)
  <2>6. CallInv'
    BY <1>1, <1>2, <2>1, MessageAssumption, ZenonT(30) DEF IndInv, MHTypeOK, CallInv, InDartCode
  <2>7. QueueInv' /\ NoLostWakeup' /\ OOBInterrupts'
    BY <1>1, <1>2, <1>3, <2>1, MessageAssumption
    DEF IndInv, MHTypeOK, QueueInv, NoLostWakeup, OOBInterrupts, NoneQueued
  <2>8. QueuedForOpenPort'
    BY <1>1, <1>2, <2>1, QueuedKept DEF IndInv, MHTypeOK
  <2>. QED
    BY <2>2, <2>3, <2>4, <2>5, <2>6, <2>7, <2>8 DEF IndInv
<1>4. CASE (~ok \/ NoneQueued(h)) /\ FinishTask(h, ok)
  <2>1. PICK next \in {"error", "pool", "end"} :
          /\ pc' = [pc EXCEPT ![h] = next]
          /\ next = "error" <=> ~ok
          /\ next = "pool" <=> ok /\ live_ports[h] > 0
    <3>1. CASE ~ok
      BY <1>4, <3>1 DEF FinishTask
    <3>2. CASE ok /\ live_ports[h] > 0
      BY <1>4, <3>2, ZenonT(30) DEF FinishTask
    <3>3. CASE ok /\ ~(live_ports[h] > 0)
      BY <1>4, <3>3, ZenonT(30) DEF FinishTask
    <3>. QED
      BY <3>1, <3>2, <3>3, ZenonT(30)
  <2>2. /\ pool' = [pool EXCEPT ![h] = (next = "pool")]
        /\ task' = [task EXCEPT ![h] = "none"]
        /\ oob' = [oob EXCEPT ![h] = FALSE]
        /\ UNCHANGED <<queue, oob_queue>>
    BY <1>4, <2>1, ZenonT(30) DEF FinishTask
  <2>3. next = "pool" => NoneQueued(h)
    BY <1>4, <2>1, ZenonT(30)
  <2>4. ASSUME h \in NativePorts PROVE next = "pool"
    <3>1. ok
      BY <2>4, MessageAssumption, ZenonT(30)
    <3>2. live_ports[h] = 1
      BY <1>2, <2>4 DEF IndInv, NativeInv
    <3>. QED
      BY <2>1, <3>1, <3>2
  <2>5. MHTypeOK'
    BY <1>1, <2>1, <2>2, ZenonT(30) DEF IndInv, MHTypeOK, PCs
  <2>6. ThreadInv'
    BY <1>1, <1>2, <2>1, <2>2, ZenonT(30) DEF IndInv, MHTypeOK, ThreadInv, OnPool
  <2>7. NativeInv'
    BY <1>1, <1>2, <2>1, <2>4, MessageAssumption DEF IndInv, MHTypeOK, NativeInv
  <2>8. PortInv' /\ MainPortInv'
    <3>1. \A k \in Handlers : pc'[k] = pc[k] \/ (k = h /\ pc'[k] = next)
      BY <2>1 DEF IndInv, MHTypeOK
    <3>. QED
      BY <1>1, <1>2, <2>1, <3>1, PortsKept, ZenonT(30)
  <2>9. CallInv'
    BY <1>1, <1>2, <2>1, <2>2, MessageAssumption, ZenonT(30)
    DEF IndInv, MHTypeOK, CallInv, InDartCode
  <2>10. QueueInv' /\ NoLostWakeup' /\ OOBInterrupts'
    BY <1>1, <1>2, <2>1, <2>2, <2>3, MessageAssumption, ZenonT(30)
    DEF IndInv, MHTypeOK, QueueInv, NoLostWakeup, OOBInterrupts, NoneQueued
  <2>11. QueuedForOpenPort'
    BY <1>1, <1>2, <2>1, <2>2, QueuedKept DEF IndInv, MHTypeOK
  <2>. QED
    BY <2>5, <2>6, <2>7, <2>8, <2>9, <2>10, <2>11, ZenonT(30) DEF IndInv
<1>. QED
  BY <1>3, <1>4 DEF HandleMessages

LEMMA TaskCallbackInd ==
  ASSUME IndInv, NEW h \in Handlers, TaskCallback(h)
  PROVE  IndInv'
<1>1. task[h] = "accepted" /\ pc[h] = "pool" /\ OnPool(h) /\ pool[h]
  BY ZenonT(30) DEF IndInv, ThreadInv, OnPool, TaskCallback
<1>2. h \in Isolates => opc[h] = "none" /\ \A p \in Ports : flushing[p] # h
  BY <1>1, ZenonT(30) DEF IndInv, CallInv, InDartCode
<1>3. CASE /\ start_callback[h]
           /\ task' = [task EXCEPT ![h] = "running"]
           /\ pc' = [pc EXCEPT ![h] = IF h \in ClassIsolates THEN "construct" ELSE "start"]
           /\ UNCHANGED <<queue, oob_queue, pool, current, oob>>
  <2>1. UNCHANGED <<owner, live, used_ids, live_ports, start_callback, main_port, got_port,
                    interrupt, opc, flushing, posted>>
    BY DEF TaskCallback
  <2>2. h \notin NativePorts
    BY <1>3, MessageAssumption DEF IndInv, ThreadInv, Isolates
  <2>3. MHTypeOK'
    BY <1>3, <2>1, ZenonT(30) DEF IndInv, MHTypeOK, PCs
  <2>4. ThreadInv'
    BY <1>1, <1>3, <2>1 DEF IndInv, MHTypeOK, ThreadInv, OnPool
  <2>5. NativeInv'
    BY <1>3, <2>1, <2>2, MessageAssumption DEF IndInv, MHTypeOK, NativeInv
  <2>6. PortInv' /\ MainPortInv'
    BY <1>1, <1>3, <2>1, MessageAssumption DEF IndInv, MHTypeOK, PortInv, MainPortInv
  <2>7. CallInv'
    BY <1>1, <1>2, <1>3, <2>1, MessageAssumption, ZenonT(30)
    DEF IndInv, MHTypeOK, CallInv, InDartCode
  <2>8. QueueInv' /\ NoLostWakeup' /\ OOBInterrupts'
    BY <1>1, <1>3, <2>1, MessageAssumption
    DEF IndInv, MHTypeOK, QueueInv, NoLostWakeup, OOBInterrupts, NoneQueued
  <2>9. QueuedForOpenPort'
    BY <1>1, <1>3, <2>1, QueuedKept DEF IndInv, MHTypeOK
  <2>. QED
    BY <2>3, <2>4, <2>5, <2>6, <2>7, <2>8, <2>9 DEF IndInv
<1>4. CASE ~start_callback[h] /\ HandleMessages(h, TRUE)
  <2>1. UNCHANGED <<registryVars, live_ports, start_callback, runs, isolateVars,
                    flushing, posted>>
    BY DEF TaskCallback
  <2>2. start_callback' = [start_callback EXCEPT ![h] = FALSE]
    BY <1>4, <2>1 DEF IndInv, MHTypeOK
  <2>. QED
    BY <1>1, <1>2, <1>4, <2>1, <2>2, HandleMessagesInd, ZenonT(30)
<1>. QED
  BY <1>3, <1>4, ZenonT(30) DEF TaskCallback

LEMMA StartCallbackDoneInd ==
  ASSUME IndInv, NEW h \in Handlers, NEW ok \in BOOLEAN, StartCallbackDone(h, ok)
  PROVE  IndInv'
<1>1. OnPool(h) /\ pc[h] # "pool"
  BY DEF StartCallbackDone, OnPool
<1>2. h \in Isolates /\ opc[h] = "none" /\ \A p \in Ports : flushing[p] # h
  BY ZenonT(30) DEF StartCallbackDone, InDart
<1>. QED
  BY <1>1, <1>2, HandleMessagesInd, ZenonT(30) DEF StartCallbackDone

LEMMA HandleMessageDoneInd ==
  ASSUME IndInv, NEW h \in Handlers, NEW ok \in BOOLEAN, HandleMessageDone(h, ok)
  PROVE  IndInv'
<1>1. OnPool(h) /\ pc[h] = "handle" /\ (~ok => h \in Isolates)
  BY DEF HandleMessageDone, OnPool
<1>2. ASSUME h \in Isolates PROVE opc[h] = "none" /\ \A p \in Ports : flushing[p] # h
  <2>1. CASE oob[h]
    BY <1>1, <1>2, <2>1, ZenonT(30) DEF IndInv, CallInv, InDartCode
  <2>2. CASE ~oob[h]
    BY <1>2, <2>2 DEF HandleMessageDone, InDart
  <2>. QED
    BY <2>1, <2>2
<1>3. UNCHANGED <<registryVars, live_ports, start_callback, runs, isolateVars,
                  flushing, posted>>
  BY DEF HandleMessageDone
<1>4. start_callback' = [start_callback EXCEPT ![h] = FALSE]
  BY <1>1, <1>3 DEF IndInv, MHTypeOK, ThreadInv
<1>. QED
  BY <1>1, <1>2, <1>3, <1>4, HandleMessagesInd, ZenonT(30) DEF HandleMessageDone

\* A message taken by Dart_HandleMessage on the embedder's thread.
LEMMA HandleNextInd ==
  ASSUME IndInv, NEW h \in Isolates, pc[h] \in {"embedder", "handle next"},
         opc[h] = "none", \A p \in Ports : flushing[p] # h,
         DequeueMessage(h, "handle next"),
         UNCHANGED <<registryVars, live_ports, pool, task, start_callback, runs,
                     isolateVars, flushing, posted>>
  PROVE  IndInv'
<1>1. UNCHANGED <<owner, live, used_ids, live_ports, pool, task, start_callback, main_port,
                  got_port, interrupt, opc, flushing, posted>>
  BY ZenonT(30)
<1>2. h \in Handlers /\ h \notin NativePorts
  BY MessageAssumption, ZenonT(30)
<1>3. PICK m :
        /\ queue' = [queue EXCEPT ![h] = @ \ {m}]
        /\ oob_queue' = [oob_queue EXCEPT ![h] = @ \ {m}]
        /\ oob' = [oob EXCEPT ![h] = (oob_queue[h] # {})]
        /\ pc' = [pc EXCEPT ![h] = "handle next"]
  BY ZenonT(30) DEF DequeueMessage
<1>4. MHTypeOK'
  BY <1>1, <1>2, <1>3, ZenonT(30) DEF IndInv, MHTypeOK, PCs
<1>. DEFINE Outside == {"embedder", "handle next"}
<1>5. \A k \in Handlers : pc'[k] = pc[k] \/ (k = h /\ {pc[k], pc'[k]} \subseteq Outside)
  BY <1>2, <1>3, ZenonT(30) DEF IndInv, MHTypeOK
<1>6. ThreadInv'
  BY <1>1, <1>5, ZenonT(30) DEF IndInv, ThreadInv, OnPool
<1>7. NativeInv'
  BY <1>1, <1>2, <1>3, MessageAssumption, ZenonT(30) DEF IndInv, MHTypeOK, NativeInv
<1>8. PortInv' /\ MainPortInv'
  <2>1. PortInv'
    BY <1>1, <1>2, <1>3, ZenonT(30) DEF IndInv, MHTypeOK, PortInv
  <2>2. MainPortInv'
    BY <1>1, <1>2, <1>3, MessageAssumption, ZenonT(30) DEF IndInv, MHTypeOK, MainPortInv
  <2>. QED
    BY <2>1, <2>2, ZenonT(30)
<1>9. CallInv'
  <2>1. \A k \in Handlers : k # h => pc'[k] = pc[k] /\ oob'[k] = oob[k]
    BY <1>3, ZenonT(30) DEF IndInv, MHTypeOK
  <2>2. \A k \in Isolates : k # h /\ InDartCode(k) => InDartCode(k)'
    BY <2>1, MessageAssumption, ZenonT(30) DEF InDartCode
  <2>3. \A k \in NativePorts : pc'[k] = pc[k]
    BY <1>2, <2>1, MessageAssumption, ZenonT(30)
  <2>. QED
    BY <1>1, <2>2, <2>3, ZenonT(30) DEF IndInv, CallInv
<1>10. QueueInv' /\ NoLostWakeup' /\ OOBInterrupts'
  <2>1. \A k \in Handlers : queue'[k] \subseteq queue[k] /\ oob_queue'[k] \subseteq oob_queue[k]
    BY <1>3, ZenonT(30) DEF IndInv, MHTypeOK
  <2>2. \A k \in Handlers : NoneQueued(k) => NoneQueued(k)'
    BY <2>1, ZenonT(30) DEF NoneQueued
  <2>3. QueueInv'
    BY <1>5, <2>2, ZenonT(30) DEF IndInv, QueueInv
  <2>4. NoLostWakeup'
    BY <1>1, <2>2, ZenonT(30) DEF IndInv, NoLostWakeup
  <2>5. OOBInterrupts'
    BY <1>1, <1>5, <2>1, MessageAssumption, ZenonT(30) DEF IndInv, OOBInterrupts
  <2>. QED
    BY <2>3, <2>4, <2>5, ZenonT(30)
<1>11. QueuedForOpenPort'
  BY <1>1, <1>2, <1>3, QueuedKept, ZenonT(30) DEF IndInv, MHTypeOK
<1>. QED
  BY <1>4, <1>6, <1>7, <1>8, <1>9, <1>10, <1>11, ZenonT(30) DEF IndInv

LEMMA HandleNextMessageInd ==
  ASSUME IndInv, NEW h \in Handlers, HandleNextMessage(h)
  PROVE  IndInv'
BY HandleNextInd, ZenonT(30) DEF HandleNextMessage, InDart

LEMMA HandleNextMessageDoneInd ==
  ASSUME IndInv, NEW h \in Handlers, HandleNextMessageDone(h)
  PROVE  IndInv'
<1>1. pc[h] = "handle next" /\ h \in Isolates /\ h \notin NativePorts
  BY MessageAssumption, ZenonT(30) DEF IndInv, NativeInv, HandleNextMessageDone
<1>2. CASE oob[h] /\ ~NoneQueued(h) /\ DequeueMessage(h, "handle next")
  <2>1. opc[h] = "none" /\ \A p \in Ports : flushing[p] # h
    BY <1>1, <1>2, ZenonT(30) DEF IndInv, CallInv, InDartCode
  <2>. QED
    BY <1>1, <1>2, <2>1, HandleNextInd, ZenonT(30) DEF HandleNextMessageDone
<1>3. CASE /\ IF oob[h] THEN NoneQueued(h) ELSE InDart(h)
           /\ pc' = [pc EXCEPT ![h] = "embedder"]
           /\ oob' = [oob EXCEPT ![h] = FALSE]
           /\ UNCHANGED <<queue, oob_queue>>
  <2>1. UNCHANGED <<owner, live, used_ids, live_ports, pool, task, start_callback, main_port,
                    got_port, interrupt, opc, flushing, posted>>
    BY ZenonT(30) DEF HandleNextMessageDone
  <2>2. MHTypeOK'
    BY <1>3, <2>1, ZenonT(30) DEF IndInv, MHTypeOK, PCs
  <2>3. ThreadInv'
    BY <1>1, <1>3, <2>1, ZenonT(30) DEF IndInv, MHTypeOK, ThreadInv, OnPool
  <2>4. NativeInv'
    BY <1>1, <1>3, <2>1, MessageAssumption, ZenonT(30) DEF IndInv, MHTypeOK, NativeInv
  <2>5. PortInv' /\ MainPortInv'
    BY <1>1, <1>3, <2>1, MessageAssumption, ZenonT(30)
    DEF IndInv, MHTypeOK, PortInv, MainPortInv
  <2>6. CallInv'
    BY <1>1, <1>3, <2>1, MessageAssumption, ZenonT(30) DEF IndInv, MHTypeOK, CallInv, InDartCode
  <2>7. QueueInv' /\ NoLostWakeup' /\ OOBInterrupts'
    BY <1>1, <1>3, <2>1, MessageAssumption, ZenonT(30)
    DEF IndInv, MHTypeOK, QueueInv, NoLostWakeup, OOBInterrupts, NoneQueued
  <2>8. QueuedForOpenPort'
    BY <1>1, <1>3, <2>1, QueuedKept, ZenonT(30) DEF IndInv, MHTypeOK
  <2>. QED
    BY <2>2, <2>3, <2>4, <2>5, <2>6, <2>7, <2>8 DEF IndInv
<1>. QED
  BY <1>2, <1>3, ZenonT(30) DEF HandleNextMessageDone

LEMMA StackCheckInd ==
  ASSUME IndInv, NEW h \in Handlers, StackCheck(h)
  PROVE  IndInv'
<1>1. h \in Isolates /\ h \notin NativePorts /\ InDartCode(h)
  BY MessageAssumption, ZenonT(30) DEF StackCheck, InDart, InDartCode
<1>2. /\ interrupt' = [interrupt EXCEPT ![h] = FALSE]
      /\ opc' = [opc EXCEPT ![h] = "check"]
      /\ UNCHANGED <<owner, live, used_ids, queue, oob_queue, live_ports, pool, task,
                     start_callback, pc, oob, main_port, got_port, flushing, posted>>
  BY DEF StackCheck
<1>3. MHTypeOK'
  BY <1>2 DEF IndInv, MHTypeOK
<1>4. ThreadInv' /\ PortInv' /\ MainPortInv' /\ QueueInv' /\ NoLostWakeup' /\ QueuedForOpenPort'
  BY <1>2, ZenonT(30)
  DEF IndInv, ThreadInv, OnPool, PortInv, MainPortInv, QueueInv, NoLostWakeup,
     QueuedForOpenPort, NoneQueued
<1>5. NativeInv'
  BY <1>1, <1>2, MessageAssumption DEF IndInv, MHTypeOK, NativeInv
<1>6. CallInv'
  BY <1>1, <1>2, MessageAssumption, ZenonT(30) DEF IndInv, MHTypeOK, CallInv, InDartCode
<1>7. OOBInterrupts'
  BY <1>2, MessageAssumption DEF IndInv, MHTypeOK, OOBInterrupts
<1>. QED
  BY <1>3, <1>4, <1>5, <1>6, <1>7 DEF IndInv

LEMMA HandleOOBMessagesInd ==
  ASSUME IndInv, NEW h \in Handlers, HandleOOBMessages(h)
  PROVE  IndInv'
<1>1. opc[h] # "none" /\ h \in Isolates /\ h \notin NativePorts /\ InDartCode(h)
  BY MessageAssumption, ZenonT(30) DEF IndInv, NativeInv, CallInv, HandleOOBMessages
<1>2. PICK m, next :
        /\ (next = "none" /\ oob_queue[h] = {}) \/ next = "handle"
        /\ opc' = [opc EXCEPT ![h] = next]
        /\ oob_queue' = [oob_queue EXCEPT ![h] = @ \ {m}]
  <2>1. CASE oob_queue[h] # {}
    BY <2>1 DEF HandleOOBMessages
  <2>2. CASE oob_queue[h] = {}
    <3>1. oob_queue' = [oob_queue EXCEPT ![h] = @ \ {NoMessage}]
      BY <2>2 DEF IndInv, MHTypeOK, HandleOOBMessages
    <3>2. opc' = [opc EXCEPT ![h] = "none"]
      BY <2>2 DEF HandleOOBMessages
    <3>. QED
      BY <2>2, <3>1, <3>2, ZenonT(30)
  <2>. QED
    BY <2>1, <2>2
<1>3. UNCHANGED <<owner, live, used_ids, queue, live_ports, pool, task, start_callback, pc,
                  oob, main_port, got_port, interrupt, flushing, posted>>
  BY DEF HandleOOBMessages
<1>4. MHTypeOK'
  BY <1>2, <1>3 DEF IndInv, MHTypeOK
<1>5. ThreadInv' /\ PortInv' /\ MainPortInv'
  BY <1>3, ZenonT(30) DEF IndInv, ThreadInv, OnPool, PortInv, MainPortInv
<1>6. NativeInv'
  BY <1>1, <1>2, <1>3, MessageAssumption DEF IndInv, MHTypeOK, NativeInv
<1>7. CallInv'
  BY <1>1, <1>2, <1>3, MessageAssumption, ZenonT(30) DEF IndInv, MHTypeOK, CallInv, InDartCode
<1>8. QueueInv' /\ NoLostWakeup'
  BY <1>2, <1>3 DEF IndInv, MHTypeOK, QueueInv, NoLostWakeup, NoneQueued
<1>9. OOBInterrupts'
  BY <1>2, <1>3, MessageAssumption DEF IndInv, MHTypeOK, OOBInterrupts
<1>10. QueuedForOpenPort'
  BY <1>2, <1>3, QueuedKept DEF IndInv, MHTypeOK
<1>. QED
  BY <1>4, <1>5, <1>6, <1>7, <1>8, <1>9, <1>10 DEF IndInv

LEMMA EndCallbackInd ==
  ASSUME IndInv, NEW h \in Handlers, EndCallback(h)
  PROVE  IndInv'
<1>1. pc[h] \in {"end", "error"} /\ h \in Isolates /\ h \notin NativePorts
  BY MessageAssumption DEF IndInv, NativeInv, EndCallback
<1>2. PICK next \in {"embedder", "exit"} : pc' = [pc EXCEPT ![h] = next]
  BY DEF EndCallback
<1>3. UNCHANGED <<owner, live, used_ids, queue, oob_queue, live_ports, pool, task,
                  start_callback, oob, main_port, got_port, interrupt, opc, flushing, posted>>
  BY DEF EndCallback
<1>4. MHTypeOK'
  BY <1>2, <1>3, ZenonT(30) DEF IndInv, MHTypeOK, PCs
<1>5. ThreadInv'
  BY <1>1, <1>2, <1>3 DEF IndInv, MHTypeOK, ThreadInv, OnPool
<1>6. NativeInv'
  BY <1>1, <1>2, <1>3, MessageAssumption DEF IndInv, MHTypeOK, NativeInv
<1>7. PortInv' /\ MainPortInv'
  BY <1>1, <1>2, <1>3, MessageAssumption DEF IndInv, MHTypeOK, PortInv, MainPortInv
<1>8. CallInv'
  BY <1>1, <1>2, <1>3, MessageAssumption, ZenonT(30) DEF IndInv, MHTypeOK, CallInv, InDartCode
<1>9. QueueInv' /\ NoLostWakeup' /\ OOBInterrupts'
  BY <1>1, <1>2, <1>3, MessageAssumption
  DEF IndInv, MHTypeOK, QueueInv, NoLostWakeup, OOBInterrupts, NoneQueued
<1>10. QueuedForOpenPort'
  BY <1>1, <1>2, <1>3, QueuedKept DEF IndInv, MHTypeOK
<1>. QED
  BY <1>4, <1>5, <1>6, <1>7, <1>8, <1>9, <1>10 DEF IndInv

\* The live ports of a handler are finitely many.
LEMMA LivePortsFinite ==
  ASSUME IndInv, NEW h \in Handlers
  PROVE  IsFiniteSet(LivePorts(h)) /\ Cardinality(LivePorts(h)) \in Nat
<1>1. LivePorts(h) \subseteq used_ids
  BY HandlerAssumption, ZenonT(30) DEF IndInv, PortInv, LivePorts, PortsOf
<1>2. IsFiniteSet(used_ids)
  BY DEF IndInv, MHTypeOK
<1>. QED
  BY <1>1, <1>2, FS_Subset, FS_CardinalityType

LEMMA ShutdownInd ==
  ASSUME IndInv, NEW h \in Handlers, Shutdown(h)
  PROVE  IndInv'
<1>1. /\ pc[h] \in {"embedder", "end"} /\ h \in Isolates /\ h \notin NativePorts
      /\ opc[h] = "none" /\ \A p \in Ports : flushing[p] # h
  <2>1. CASE pc[h] = "embedder" /\ InDart(h)
    BY <2>1, MessageAssumption DEF InDart
  <2>2. CASE pc[h] = "end"
    BY <2>2, MessageAssumption, ZenonT(30) DEF IndInv, NativeInv, CallInv, InDartCode
  <2>. QED
    BY <2>1, <2>2, ZenonT(30) DEF Shutdown
<1>2. /\ owner' = [p \in Ports |-> IF owner[p] = h THEN NoHandler ELSE owner[p]]
      /\ live' = [p \in Ports |-> live[p] /\ owner[p] # h]
      /\ pc' = [pc EXCEPT ![h] = "closing"]
  BY ZenonT(30) DEF Shutdown, ClosePorts, PortsOf
<1>3. live_ports' = [live_ports EXCEPT ![h] = @ - Cardinality(LivePorts(h))]
  BY DEF Shutdown, LivePorts
<1>4. UNCHANGED <<used_ids, queue, oob_queue, pool, task, start_callback, oob, main_port,
                  got_port, interrupt, opc, flushing, posted>>
  BY ZenonT(30) DEF Shutdown, ClosePorts
<1>5. MHTypeOK'
  <2>1. live_ports' \in [Handlers -> Int]
    <3>1. Cardinality(LivePorts(h)) \in Nat
      BY LivePortsFinite
    <3>2. live_ports \in [Handlers -> Int]
      BY DEF IndInv, MHTypeOK
    <3>. QED
      BY <1>3, <3>1, <3>2
  <2>. QED
    BY <1>2, <1>4, <2>1, ZenonT(30) DEF IndInv, MHTypeOK, PCs
<1>6. ThreadInv'
  BY <1>1, <1>2, <1>3, <1>4, ZenonT(30) DEF IndInv, MHTypeOK, ThreadInv, OnPool
<1>7. NativeInv'
  BY <1>1, <1>2, <1>3, <1>4, MessageAssumption DEF IndInv, MHTypeOK, NativeInv
<1>8. PortInv'
  BY <1>1, <1>2, <1>4, ZenonT(30) DEF IndInv, MHTypeOK, PortInv
<1>9. MainPortInv'
  BY <1>1, <1>2, <1>4, MessageAssumption DEF IndInv, MHTypeOK, MainPortInv
<1>10. CallInv'
  BY <1>1, <1>2, <1>4, MessageAssumption, ZenonT(30) DEF IndInv, MHTypeOK, CallInv, InDartCode
<1>11. QueueInv' /\ NoLostWakeup' /\ OOBInterrupts'
  BY <1>1, <1>2, <1>4, MessageAssumption, ZenonT(30)
  DEF IndInv, MHTypeOK, QueueInv, NoLostWakeup, OOBInterrupts, NoneQueued
<1>12. QueuedForOpenPort'
  <2>. SUFFICES ASSUME NEW k \in Handlers, NEW m \in queue[k] \cup oob_queue[k]
                PROVE  owner'[m.port] = k \/ flushing'[m.port] = k \/ pc'[k] = "closing"
    BY <1>4, ZenonT(30) DEF QueuedForOpenPort
  <2>1. m.port \in Ports
    BY DEF IndInv, MHTypeOK, Message
  <2>2. owner[m.port] = k \/ flushing[m.port] = k \/ pc[k] = "closing"
    BY ZenonT(30) DEF IndInv, QueuedForOpenPort
  <2>. QED
    BY <1>2, <1>4, <2>1, <2>2 DEF IndInv, MHTypeOK
<1>. QED
  BY <1>5, <1>6, <1>7, <1>8, <1>9, <1>10, <1>11, <1>12 DEF IndInv

LEMMA CloseAllPortsInd ==
  ASSUME IndInv, NEW h \in Handlers, CloseAllPorts(h)
  PROVE  IndInv'
<1>1. pc[h] = "closing" /\ h \notin NativePorts
  BY ZenonT(30) DEF IndInv, NativeInv, CloseAllPorts
<1>2. /\ queue' = [queue EXCEPT ![h] = {}] /\ oob_queue' = [oob_queue EXCEPT ![h] = {}]
      /\ pc' = [pc EXCEPT ![h] = "flushed"]
      /\ UNCHANGED <<owner, live, used_ids, live_ports, pool, task, start_callback, oob,
                     main_port, got_port, interrupt, opc, flushing, posted>>
  BY DEF CloseAllPorts
<1>3. MHTypeOK'
  BY <1>2, ZenonT(30) DEF IndInv, MHTypeOK, PCs
<1>4. ThreadInv'
  BY <1>1, <1>2, ZenonT(30) DEF IndInv, MHTypeOK, ThreadInv, OnPool
<1>5. NativeInv'
  BY <1>1, <1>2, MessageAssumption DEF IndInv, MHTypeOK, NativeInv
<1>6. PortInv' /\ MainPortInv'
  BY <1>1, <1>2, MessageAssumption, ZenonT(30) DEF IndInv, MHTypeOK, PortInv, MainPortInv
<1>7. CallInv'
  BY <1>1, <1>2, MessageAssumption, ZenonT(30) DEF IndInv, MHTypeOK, CallInv, InDartCode
<1>8. QueueInv' /\ NoLostWakeup' /\ OOBInterrupts'
  BY <1>1, <1>2, MessageAssumption
  DEF IndInv, MHTypeOK, QueueInv, NoLostWakeup, OOBInterrupts, NoneQueued
<1>9. QueuedForOpenPort'
  BY <1>1, <1>2 DEF IndInv, MHTypeOK, QueuedForOpenPort
<1>. QED
  BY <1>3, <1>4, <1>5, <1>6, <1>7, <1>8, <1>9 DEF IndInv

LEMMA DeleteHandlerInd ==
  ASSUME IndInv, NEW h \in Handlers, DeleteHandler(h)
  PROVE  IndInv'
<1>1. pc[h] = "flushed" /\ h \notin NativePorts
  BY ZenonT(30) DEF IndInv, NativeInv, DeleteHandler
<1>2. /\ pc' = [pc EXCEPT ![h] = "deleted"]
      /\ UNCHANGED <<owner, live, used_ids, queue, oob_queue, live_ports, pool, task,
                     start_callback, oob, main_port, got_port, interrupt, opc, flushing, posted>>
  BY DEF DeleteHandler
<1>3. MHTypeOK'
  BY <1>2, ZenonT(30) DEF IndInv, MHTypeOK, PCs
<1>4. ThreadInv'
  BY <1>1, <1>2 DEF IndInv, MHTypeOK, ThreadInv, OnPool
<1>5. NativeInv'
  BY <1>1, <1>2, MessageAssumption DEF IndInv, MHTypeOK, NativeInv
<1>6. PortInv' /\ MainPortInv'
  BY <1>1, <1>2, MessageAssumption DEF IndInv, MHTypeOK, PortInv, MainPortInv
<1>7. CallInv'
  BY <1>1, <1>2, MessageAssumption, ZenonT(30) DEF IndInv, MHTypeOK, CallInv, InDartCode
<1>8. QueueInv' /\ NoLostWakeup' /\ OOBInterrupts'
  BY <1>1, <1>2, MessageAssumption, ZenonT(30)
  DEF IndInv, MHTypeOK, QueueInv, NoLostWakeup, OOBInterrupts, NoneQueued
<1>9. QueuedForOpenPort'
  BY <1>1, <1>2, QueuedKept DEF IndInv, MHTypeOK
<1>. QED
  BY <1>3, <1>4, <1>5, <1>6, <1>7, <1>8, <1>9 DEF IndInv

LEMMA InitInd == MHInit => IndInv
<1>. SUFFICES ASSUME MHInit PROVE IndInv
  OBVIOUS
<1>1. MHTypeOK
  BY FS_EmptySet DEF MHInit, Init, MHTypeOK, PCs
<1>2. ThreadInv /\ NativeInv
  BY MessageAssumption DEF MHInit, ThreadInv, NativeInv, OnPool
<1>3. PortInv /\ MainPortInv /\ CallInv
  BY MessageAssumption, HandlerAssumption
  DEF MHInit, Init, PortInv, MainPortInv, CallInv
<1>4. QueueInv /\ NoLostWakeup /\ QueuedForOpenPort /\ OOBInterrupts
  BY MessageAssumption, ZenonT(30)
  DEF MHInit, QueueInv, NoLostWakeup, QueuedForOpenPort, OOBInterrupts, NoneQueued
<1>. QED
  BY <1>1, <1>2, <1>3, <1>4 DEF IndInv

LEMMA NextInd ==
  ASSUME IndInv, [MHNext]_mhVars
  PROVE  IndInv'
<1>1. CASE UNCHANGED mhVars
  <2>1. UNCHANGED <<owner, live, used_ids, queue, oob_queue, live_ports, pool, task,
                    start_callback, pc, oob, main_port, got_port, interrupt, opc,
                    flushing, posted>>
    BY <1>1 DEF mhVars
  <2>2. MHTypeOK' /\ ThreadInv' /\ NativeInv' /\ PortInv' /\ MainPortInv' /\ CallInv'
    BY <2>1, ZenonT(30)
    DEF IndInv, MHTypeOK, ThreadInv, OnPool, NativeInv, PortInv, MainPortInv,
       CallInv, InDartCode
  <2>3. QueueInv' /\ NoLostWakeup' /\ QueuedForOpenPort' /\ OOBInterrupts'
    BY <2>1, ZenonT(30)
    DEF IndInv, QueueInv, NoLostWakeup, QueuedForOpenPort, OOBInterrupts, NoneQueued
  <2>. QED
    BY <2>2, <2>3 DEF IndInv
<1>2. ASSUME NEW h \in Handlers, NEW p \in Ports,
             \/ CreateIsolate(h, p) \/ NewNativePort(h, p)
             \/ \E ok \in BOOLEAN : ReceivePortImpl_factory(h, p, ok)
      PROVE  IndInv'
  BY <1>2, CreateIsolateInd, NewNativePortInd, ReceivePortImpl_factoryInd
<1>3. ASSUME NEW p \in Ports,
             \/ ClosePort(p) \/ FlushPort(p)
             \/ \E is_oob \in BOOLEAN : PostMessage(p, is_oob)
      PROVE  IndInv'
  BY <1>3, ClosePortInd, FlushPortInd, PostMessageInd
<1>4. ASSUME NEW h \in Handlers,
             GetPort(h) \/ CreateRunPort(h) \/ Run(h) \/ TaskCallback(h)
      PROVE  IndInv'
  BY <1>4, GetPortInd, CreateRunPortInd, RunInd, TaskCallbackInd
<1>5. ASSUME NEW h \in Handlers, NEW ok \in BOOLEAN,
             StartCallbackDone(h, ok) \/ HandleMessageDone(h, ok)
      PROVE  IndInv'
  BY <1>5, StartCallbackDoneInd, HandleMessageDoneInd
<1>6. ASSUME NEW h \in Handlers,
             \/ HandleNextMessage(h) \/ HandleNextMessageDone(h)
             \/ StackCheck(h) \/ HandleOOBMessages(h) \/ EndCallback(h)
      PROVE  IndInv'
  BY <1>6, HandleNextMessageInd, HandleNextMessageDoneInd, StackCheckInd,
     HandleOOBMessagesInd, EndCallbackInd
<1>7. ASSUME NEW h \in Handlers, Shutdown(h) \/ CloseAllPorts(h) \/ DeleteHandler(h)
      PROVE  IndInv'
  BY <1>7, ShutdownInd, CloseAllPortsInd, DeleteHandlerInd
<1>. QED
  BY <1>1, <1>2, <1>3, <1>4, <1>5, <1>6, <1>7 DEF MHNext

LEMMA HandlerInvariant == MHSpec => []IndInv
  BY InitInd, NextInd, PTL DEF MHSpec

-----------------------------------------------------------------------------
(* The theorems.                                                           *)

\* No wakeup is lost: a message in a queue of a handler on the pool has a task
\* that will take it, whatever interleaves PostMessage, TaskCallback and the
\* flushes of ClosePort.
THEOREM WakeupsKept == MHSpec => []NoLostWakeup
<1>1. IndInv => NoLostWakeup
  BY DEF IndInv
<1>. QED
  BY <1>1, HandlerInvariant, PTL

\* A handler is run by one thread at a time.
THEOREM HandlerHasOneThread == MHSpec => []OneThread
<1>1. IndInv => OneThread
  BY DEF IndInv, ThreadInv, OneThread, OnPool
<1>. QED
  BY <1>1, HandlerInvariant, PTL

\* Every queued message is for a port that is open or about to be flushed.
THEOREM QueuesFollowPorts == MHSpec => []QueuedForOpenPort
<1>1. IndInv => QueuedForOpenPort
  BY DEF IndInv
<1>. QED
  BY <1>1, HandlerInvariant, PTL

\* Dart code never runs with an OOB message that nothing tells it to handle.
THEOREM OOBNotMissed == MHSpec => []OOBInterrupts
<1>1. IndInv => OOBInterrupts
  BY DEF IndInv
<1>. QED
  BY <1>1, HandlerInvariant, PTL

\* A handler is deleted only when nothing refers to it any more.
THEOREM HandlerDeletedClean == MHSpec => []DeleteIsClean
<1>1. ASSUME IndInv, NEW h \in Handlers, pc[h] \in {"flushed", "deleted"}
      PROVE  /\ NoneQueued(h) /\ PortsOf(h) = {} /\ task[h] = "none"
             /\ \A p \in Ports : flushing[p] # h
  <2>1. NoneQueued(h)
    BY <1>1 DEF IndInv, QueueInv
  <2>2. PortsOf(h) = {}
    BY <1>1, HandlerAssumption DEF IndInv, PortInv, PortsOf
  <2>3. task[h] = "none"
    BY <1>1 DEF IndInv, MHTypeOK, ThreadInv
  <2>4. \A p \in Ports : flushing[p] # h
    BY <1>1, MessageAssumption, ZenonT(30) DEF IndInv, NativeInv, CallInv, InDartCode
  <2>. QED
    BY <2>1, <2>2, <2>3, <2>4
<1>2. IndInv => DeleteIsClean
  BY <1>1, ZenonT(30) DEF DeleteIsClean
<1>. QED
  BY <1>2, HandlerInvariant, PTL

-----------------------------------------------------------------------------
(* The count of live ports.                                                *)

\* A step that changes no port and makes no main port settable again.
LEMMA CountKept ==
  ASSUME IndInv, CountInv, UNCHANGED <<owner, live, live_ports, main_port, got_port>>,
         \A k \in Isolates :
           /\ pc[k] = "unborn" => pc'[k] = "unborn"
           /\ k \in ClassIsolates /\ MainPortUnset(k)' => MainPortUnset(k)
           /\ pc'[k] = "construct" => k \in ClassIsolates
           /\ pc'[k] = "handle next" => k \in MainIsolates
  PROVE  CountInv'
<1>. SUFFICES ASSUME NEW h \in Isolates
              PROVE  /\ live_ports'[h] = Cardinality(LivePorts(h)')
                     /\ pc'[h] # "unborn" /\ MainPortUnset(h)' => ~live'[main_port'[h]]
                     /\ pc'[h] = "construct" => h \in ClassIsolates
                     /\ pc'[h] = "handle next" => h \in MainIsolates
  BY ZenonT(30) DEF CountInv
<1>1. LivePorts(h)' = LivePorts(h)
  BY ZenonT(30) DEF LivePorts, PortsOf
<1>2. MainPortUnset(h)' => MainPortUnset(h)
  BY ZenonT(30) DEF MainPortUnset
<1>. QED
  BY <1>1, <1>2, ZenonT(30) DEF CountInv

\* A new port of an isolate or a native port is not live yet.
LEMMA CreateCount ==
  ASSUME IndInv, CountInv, NEW h \in Handlers, NEW p \in Ports,
         CreateIsolate(h, p) \/ NewNativePort(h, p)
  PROVE  CountInv'
<1>1. /\ pc[h] = "unborn" /\ pc' = [pc EXCEPT ![h] = "embedder"]
      /\ owner' = [owner EXCEPT ![p] = h] /\ UNCHANGED <<live, got_port, start_callback>>
      /\ p \notin used_ids
  BY DEF CreateIsolate, NewNativePort, CreatePort
<1>2. owner[p] = NoHandler /\ ~live[p]
  BY <1>1, HandlerAssumption, MessageAssumption, ZenonT(30) DEF IndInv, PortInv
<1>3. \A k \in Isolates : live_ports'[k] = live_ports[k]
  <2>1. live_ports \in [Handlers -> Int]
    BY DEF IndInv, MHTypeOK
  <2>2. CASE CreateIsolate(h, p)
    BY <2>2, ZenonT(30) DEF CreateIsolate, handlerVars
  <2>3. CASE NewNativePort(h, p)
    BY <2>1, <2>3, MessageAssumption DEF NewNativePort
  <2>. QED
    BY <2>2, <2>3, ZenonT(30)
<1>4. \A k \in Isolates : main_port'[k] = IF k = h THEN p ELSE main_port[k]
  <2>1. main_port \in [Handlers -> Ports \cup {NoPort}]
    BY DEF IndInv, MHTypeOK
  <2>2. CASE CreateIsolate(h, p)
    BY <2>1, <2>2, MessageAssumption DEF CreateIsolate
  <2>3. CASE NewNativePort(h, p)
    BY <2>3, MessageAssumption DEF NewNativePort, isolateVars
  <2>. QED
    BY <2>2, <2>3, ZenonT(30)
<1>. SUFFICES ASSUME NEW k \in Isolates
              PROVE  /\ live_ports'[k] = Cardinality(LivePorts(k)')
                     /\ pc'[k] # "unborn" /\ MainPortUnset(k)' => ~live'[main_port'[k]]
                     /\ pc'[k] = "construct" => k \in ClassIsolates
                     /\ pc'[k] = "handle next" => k \in MainIsolates
  BY ZenonT(30) DEF CountInv
<1>5. LivePorts(k)' = LivePorts(k)
  BY <1>1, <1>2 DEF IndInv, MHTypeOK, LivePorts, PortsOf
<1>6. CASE k = h
  BY <1>1, <1>2, <1>3, <1>4, <1>5, <1>6, ZenonT(30) DEF IndInv, MHTypeOK, CountInv
<1>7. CASE k # h
  BY <1>1, <1>3, <1>4, <1>5, <1>7, MessageAssumption, ZenonT(30)
  DEF IndInv, MHTypeOK, CountInv, MainPortUnset
<1>. QED
  BY <1>6, <1>7, ZenonT(30)

\* A new ReceivePort is counted if it was made live.
LEMMA ReceivePortCount ==
  ASSUME IndInv, CountInv, NEW h \in Handlers, NEW p \in Ports, NEW ok \in BOOLEAN,
         ReceivePortImpl_factory(h, p, ok)
  PROVE  CountInv'
<1>1. /\ owner' = [owner EXCEPT ![p] = h] /\ live' = [live EXCEPT ![p] = ok]
      /\ live_ports' = [live_ports EXCEPT ![h] = IF ok THEN @ + 1 ELSE @]
      /\ UNCHANGED <<pc, got_port, start_callback, main_port>>
      /\ p \notin used_ids
  BY DEF ReceivePortImpl_factory
<1>2. owner[p] = NoHandler /\ ~live[p]
  BY <1>1, HandlerAssumption, MessageAssumption DEF IndInv, PortInv
<1>. SUFFICES ASSUME NEW k \in Isolates
              PROVE  /\ live_ports'[k] = Cardinality(LivePorts(k)')
                     /\ pc[k] # "unborn" /\ MainPortUnset(k) => ~live'[main_port[k]]
  BY <1>1, ZenonT(30) DEF CountInv, MainPortUnset
<1>3. k \in Handlers
  BY MessageAssumption
<1>4. pc[k] # "unborn" => main_port[k] # p /\ main_port[k] \in Ports
  BY <1>1 DEF IndInv, MHTypeOK, MainPortInv
<1>5. LivePorts(k)' = IF k = h /\ ok THEN LivePorts(k) \cup {p} ELSE LivePorts(k)
  <2>1. \A q \in Ports : q # p => owner'[q] = owner[q] /\ live'[q] = live[q]
    BY <1>1 DEF IndInv, MHTypeOK
  <2>2. owner'[p] = h /\ live'[p] = ok
    BY <1>1 DEF IndInv, MHTypeOK
  <2>. QED
    BY <1>2, <2>1, <2>2, ZenonT(30) DEF LivePorts, PortsOf
<1>6. p \notin LivePorts(k)
  BY <1>2 DEF LivePorts
<1>7. Cardinality(LivePorts(k) \cup {p}) = Cardinality(LivePorts(k)) + 1
  BY <1>3, <1>6, LivePortsFinite, FS_AddElement, ZenonT(30)
<1>8. live_ports'[k] = Cardinality(LivePorts(k)')
  BY <1>1, <1>3, <1>5, <1>7, ZenonT(30) DEF IndInv, MHTypeOK, CountInv
<1>. QED
  BY <1>1, <1>4, <1>8, ZenonT(30) DEF IndInv, MHTypeOK, CountInv

\* The main port is counted once: it was not live before.
LEMMA MainPortCount ==
  ASSUME IndInv, CountInv, NEW h \in Isolates, InDart(h), SetMainPortLive(h),
         MainPortUnset(h), ~MainPortUnset(h)',
         \A k \in Isolates \ {h} : pc'[k] = pc[k] /\ got_port'[k] = got_port[k],
         pc'[h] = pc[h] \/ pc'[h] = "start"
  PROVE  CountInv'
<1>. DEFINE p == main_port[h]
<1>1. h \in Handlers /\ pc[h] # "unborn"
  BY MessageAssumption, ZenonT(30) DEF InDart
<1>2. p \in Ports /\ owner[p] = h /\ ~live[p]
  BY <1>1, ZenonT(30) DEF IndInv, MainPortInv, CountInv, SetMainPortLive, SetLive, Open
<1>3. /\ live' = [live EXCEPT ![p] = TRUE]
      /\ live_ports' = [live_ports EXCEPT ![h] = @ + 1]
      /\ UNCHANGED <<owner, main_port, start_callback>>
  BY ZenonT(30) DEF SetMainPortLive, SetLive
<1>. HIDE DEF p
<1>. SUFFICES ASSUME NEW k \in Isolates
              PROVE  /\ live_ports'[k] = Cardinality(LivePorts(k)')
                     /\ pc'[k] # "unborn" /\ MainPortUnset(k)' => ~live'[main_port'[k]]
                     /\ pc'[k] = "construct" => k \in ClassIsolates
                     /\ pc'[k] = "handle next" => k \in MainIsolates
  BY ZenonT(30) DEF CountInv
<1>4. k \in Handlers
  BY MessageAssumption, ZenonT(30)
<1>5. CASE k = h
  <2>1. LivePorts(h)' = LivePorts(h) \cup {p}
    BY <1>2, <1>3, ZenonT(30) DEF IndInv, MHTypeOK, LivePorts, PortsOf
  <2>2. p \notin LivePorts(h)
    BY <1>2, ZenonT(30) DEF LivePorts
  <2>3. Cardinality(LivePorts(h)') = Cardinality(LivePorts(h)) + 1
    BY <1>1, <2>1, <2>2, LivePortsFinite, FS_AddElement, ZenonT(30)
  <2>. QED
    BY <1>1, <1>3, <1>5, <2>3, ZenonT(30) DEF IndInv, MHTypeOK, CountInv
<1>6. CASE k # h
  <2>1. LivePorts(k)' = LivePorts(k)
    BY <1>2, <1>3, <1>6, ZenonT(30) DEF IndInv, MHTypeOK, LivePorts, PortsOf
  <2>2. pc'[k] = pc[k] /\ (MainPortUnset(k)' <=> MainPortUnset(k))
    BY <1>3, <1>6, ZenonT(30) DEF MainPortUnset
  <2>3. pc[k] # "unborn" => main_port[k] \in Ports /\ main_port[k] # p
    <3>1. pc[k] # "unborn" => main_port[k] \in used_ids /\ owner[main_port[k]] \in {k, NoHandler}
      BY DEF IndInv, MainPortInv
    <3>2. used_ids \subseteq Ports
      BY ZenonT(30) DEF IndInv, MHTypeOK
    <3>. QED
      BY <1>1, <1>2, <1>6, <3>1, <3>2, HandlerAssumption, ZenonT(30)
  <2>. QED
    BY <1>1, <1>3, <1>4, <1>6, <2>1, <2>2, <2>3, ZenonT(30) DEF IndInv, MHTypeOK, CountInv
<1>. QED
  BY <1>5, <1>6, ZenonT(30)

\* A port that is closed is counted no longer.
LEMMA ClosePortCount ==
  ASSUME IndInv, CountInv, NEW p \in Ports, ClosePort(p)
  PROVE  CountInv'
<1>. DEFINE h == owner[p]
<1>1. h \in Handlers
  BY ZenonT(30) DEF IndInv, MHTypeOK, ClosePort, Open
<1>2. /\ owner' = [q \in Ports |-> IF q = p THEN NoHandler ELSE owner[q]]
      /\ live' = [q \in Ports |-> live[q] /\ q # p]
      /\ UNCHANGED <<pc, got_port, start_callback, main_port>>
  BY ZenonT(30) DEF ClosePort, ClosePorts
<1>3. live_ports' = [live_ports EXCEPT ![h] = IF live[p] THEN @ - 1 ELSE @]
  BY ZenonT(30) DEF ClosePort
<1>. SUFFICES ASSUME NEW k \in Isolates
              PROVE  /\ live_ports'[k] = Cardinality(LivePorts(k)')
                     /\ pc[k] # "unborn" /\ MainPortUnset(k) => ~live'[main_port[k]]
  BY <1>2, ZenonT(30) DEF CountInv, MainPortUnset
<1>4. k \in Handlers /\ k # NoHandler
  BY MessageAssumption, HandlerAssumption
<1>5. LivePorts(k)' = LivePorts(k) \ {p}
  BY <1>2, <1>4, ZenonT(30) DEF LivePorts, PortsOf
<1>6. p \in LivePorts(k) <=> live[p] /\ k = h
  BY DEF LivePorts, PortsOf
<1>. HIDE DEF h
<1>7. live_ports'[k] = Cardinality(LivePorts(k)')
  <2>1. Cardinality(LivePorts(k) \ {p}) =
          IF live[p] /\ k = h THEN Cardinality(LivePorts(k)) - 1 ELSE Cardinality(LivePorts(k))
    BY <1>4, <1>6, LivePortsFinite, FS_RemoveElement, ZenonT(30)
  <2>. QED
    BY <1>1, <1>3, <1>4, <1>5, <2>1, ZenonT(30) DEF IndInv, MHTypeOK, CountInv
<1>8. pc[k] # "unborn" => main_port[k] \in Ports
  BY DEF IndInv, MHTypeOK, MainPortInv
<1>. QED
  BY <1>2, <1>7, <1>8, ZenonT(30) DEF CountInv

\* Shutdown subtracts all live ports of the isolate.
LEMMA ShutdownCount ==
  ASSUME IndInv, CountInv, NEW h \in Handlers, Shutdown(h)
  PROVE  CountInv'
<1>1. /\ owner' = [p \in Ports |-> IF owner[p] = h THEN NoHandler ELSE owner[p]]
      /\ live' = [p \in Ports |-> live[p] /\ owner[p] # h]
      /\ pc' = [pc EXCEPT ![h] = "closing"] /\ pc[h] \in {"embedder", "end"}
      /\ UNCHANGED <<got_port, start_callback, main_port>>
  BY ZenonT(30) DEF Shutdown, ClosePorts, PortsOf
<1>2. live_ports' = [live_ports EXCEPT ![h] = @ - Cardinality(LivePorts(h))]
  BY DEF Shutdown, LivePorts
<1>. SUFFICES ASSUME NEW k \in Isolates
              PROVE  /\ live_ports'[k] = Cardinality(LivePorts(k)')
                     /\ pc'[k] # "unborn" /\ MainPortUnset(k)' => ~live'[main_port'[k]]
                     /\ pc'[k] = "construct" => k \in ClassIsolates
                     /\ pc'[k] = "handle next" => k \in MainIsolates
  BY ZenonT(30) DEF CountInv
<1>3. k \in Handlers /\ k # NoHandler
  BY MessageAssumption, HandlerAssumption
<1>4. pc[k] # "unborn" => main_port[k] \in Ports
  BY DEF IndInv, MHTypeOK, MainPortInv
<1>5. MainPortUnset(k)' /\ pc[k] # "unborn" => ~live'[main_port[k]]
  <2>1. CASE k = h
    <3>1. owner[main_port[k]] \in {k, NoHandler} /\ main_port[k] \in Ports
      BY <1>1, <2>1 DEF IndInv, MHTypeOK, MainPortInv
    <3>. QED
      BY <1>1, <2>1, <3>1, HandlerAssumption, MessageAssumption, ZenonT(30) DEF IndInv, PortInv
  <2>2. CASE k # h
    BY <1>1, <1>3, <1>4, <2>2, ZenonT(30) DEF IndInv, MHTypeOK, CountInv, MainPortUnset
  <2>. QED
    BY <2>1, <2>2, ZenonT(30)
<1>6. live_ports'[k] = Cardinality(LivePorts(k)')
  <2>1. CASE k = h
    <3>1. LivePorts(h)' = {}
      BY <1>1, <1>3, <2>1, ZenonT(30) DEF LivePorts, PortsOf
    <3>2. live_ports[h] = Cardinality(LivePorts(h)) /\ Cardinality(LivePorts(h)) \in Nat
      BY <2>1, LivePortsFinite, ZenonT(30) DEF CountInv
    <3>3. live_ports'[h] = 0
      BY <1>2, <3>2 DEF IndInv, MHTypeOK
    <3>. QED
      BY <2>1, <3>1, <3>3, FS_EmptySet
  <2>2. CASE k # h
    <3>1. LivePorts(k)' = LivePorts(k)
      BY <1>1, <1>3, <2>2, ZenonT(30) DEF LivePorts, PortsOf
    <3>. QED
      BY <1>2, <1>3, <2>2, <3>1, ZenonT(30) DEF IndInv, MHTypeOK, CountInv
  <2>. QED
    BY <2>1, <2>2
<1>. QED
  BY <1>1, <1>3, <1>5, <1>6, ZenonT(30) DEF IndInv, MHTypeOK, CountInv

\* The steps of the threads that run messages.
LEMMA HandleMessagesCount ==
  ASSUME IndInv, CountInv, NEW h \in Handlers, NEW ok \in BOOLEAN, HandleMessages(h, ok),
         pc[h] # "unborn",
         start_callback' = [start_callback EXCEPT ![h] = FALSE],
         UNCHANGED <<owner, live, live_ports, main_port, got_port>>
  PROVE  CountInv'
<1>1. PICK next \in {"handle", "error", "pool", "end"} : pc' = [pc EXCEPT ![h] = next]
  <2>1. CASE DequeueMessage(h, "handle")
    BY <2>1 DEF DequeueMessage
  <2>2. CASE FinishTask(h, ok)
    BY <2>2, ZenonT(30) DEF FinishTask
  <2>. QED
    BY <2>1, <2>2 DEF HandleMessages
<1>. QED
  BY <1>1, CountKept, MessageAssumption, ZenonT(30)
  DEF IndInv, MHTypeOK, CountInv, MainPortUnset

LEMMA TaskCount ==
  ASSUME IndInv, CountInv, NEW h \in Handlers, NEW ok \in BOOLEAN,
         TaskCallback(h) \/ StartCallbackDone(h, ok) \/ HandleMessageDone(h, ok)
  PROVE  CountInv'
<1>1. UNCHANGED <<owner, live, live_ports, main_port, got_port>>
  BY ZenonT(30) DEF TaskCallback, StartCallbackDone, HandleMessageDone
<1>2. CASE TaskCallback(h)
  <2>1. pc[h] = "pool"
    BY <1>2, ZenonT(30) DEF IndInv, ThreadInv, TaskCallback
  <2>2. CASE start_callback[h]
    <3>1. /\ pc' = [pc EXCEPT ![h] = IF h \in ClassIsolates THEN "construct" ELSE "start"]
          /\ UNCHANGED start_callback
      BY <1>2, <2>2, ZenonT(30) DEF TaskCallback
    <3>2. MainPortUnset(h) \/ h \notin ClassIsolates
      BY <2>1, <2>2 DEF MainPortUnset
    <3>3. ASSUME NEW k \in Isolates
          PROVE  /\ pc[k] = "unborn" => pc'[k] = "unborn"
                 /\ k \in ClassIsolates /\ MainPortUnset(k)' => MainPortUnset(k)
                 /\ pc'[k] = "construct" => k \in ClassIsolates
                 /\ pc'[k] = "handle next" => k \in MainIsolates
      <4>1. CASE k = h
        BY <2>1, <3>1, <3>2, <4>1 DEF IndInv, MHTypeOK
      <4>2. CASE k # h
        BY <3>1, <4>2, MessageAssumption, ZenonT(30)
        DEF IndInv, MHTypeOK, CountInv, MainPortUnset
      <4>. QED
        BY <4>1, <4>2, ZenonT(30)
    <3>. QED
      BY <1>1, <3>3, CountKept, ZenonT(30)
  <2>3. CASE ~start_callback[h]
    <3>1. HandleMessages(h, TRUE) /\ start_callback' = [start_callback EXCEPT ![h] = FALSE]
      BY <1>2, <2>3, ZenonT(30) DEF IndInv, MHTypeOK, TaskCallback
    <3>. QED
      BY <1>1, <2>1, <3>1, HandleMessagesCount, ZenonT(30)
  <2>. QED
    BY <2>2, <2>3
<1>3. CASE StartCallbackDone(h, ok)
  BY <1>1, <1>3, HandleMessagesCount, ZenonT(30) DEF StartCallbackDone
<1>4. CASE HandleMessageDone(h, ok)
  <2>1. pc[h] = "handle" /\ HandleMessages(h, ok) /\ UNCHANGED start_callback
    BY <1>4, ZenonT(30) DEF HandleMessageDone
  <2>2. start_callback' = [start_callback EXCEPT ![h] = FALSE]
    BY <2>1 DEF IndInv, MHTypeOK, ThreadInv
  <2>. QED
    BY <1>1, <2>1, <2>2, HandleMessagesCount, ZenonT(30)
<1>. QED
  BY <1>2, <1>3, <1>4

\* Every step preserves the count.
LEMMA NextCount ==
  ASSUME ~PortInClassIsolate, IndInv, CountInv, [MHNext]_mhVars
  PROVE  CountInv'
<1>1. CASE UNCHANGED mhVars
  BY <1>1, CountKept, ZenonT(30) DEF mhVars, CountInv, MainPortUnset
<1>2. ASSUME NEW h \in Handlers, NEW p \in Ports,
             \/ CreateIsolate(h, p) \/ NewNativePort(h, p)
             \/ \E ok \in BOOLEAN : ReceivePortImpl_factory(h, p, ok)
      PROVE  CountInv'
  BY <1>2, CreateCount, ReceivePortCount
<1>3. ASSUME NEW p \in Ports, ClosePort(p) PROVE CountInv'
  BY <1>3, ClosePortCount
<1>4. ASSUME NEW p \in Ports, FlushPort(p) PROVE CountInv'
  <2>1. flushing[p] \in NativePorts => live_ports[flushing[p]] = 1
    BY <1>4, ZenonT(30) DEF IndInv, NativeInv, CallInv
  <2>2. UNCHANGED <<pc, start_callback, owner, live, live_ports, main_port, got_port>>
    <3>1. pc \in [Handlers -> PCs]
      BY DEF IndInv, MHTypeOK
    <3>2. pc' = [pc EXCEPT ![flushing[p]] = IF /\ flushing[p] \in NativePorts
                                               /\ live_ports[flushing[p]] = 0
                                              THEN "deleted" ELSE @]
      BY <1>4, ZenonT(30) DEF FlushPort
    <3>3. UNCHANGED pc
      BY <2>1, <3>1, <3>2
    <3>. QED
      BY <1>4, <3>3, ZenonT(30) DEF FlushPort, registryVars, isolateVars
  <2>. QED
    BY <2>2, CountKept, ZenonT(30) DEF CountInv, MainPortUnset
<1>5. ASSUME NEW p \in Ports, NEW is_oob \in BOOLEAN, PostMessage(p, is_oob)
      PROVE  CountInv'
  <2>1. UNCHANGED <<pc, start_callback, owner, live, live_ports, main_port, got_port>>
    BY <1>5 DEF PostMessage
  <2>. QED
    BY <2>1, CountKept, ZenonT(30) DEF CountInv, MainPortUnset
<1>6. ASSUME NEW h \in Handlers, GetPort(h) PROVE CountInv'
  <2>1. /\ InDart(h) /\ SetMainPortLive(h) /\ h \in Isolates /\ ~got_port[h]
        /\ h \notin ClassIsolates /\ UNCHANGED pc
        /\ got_port' = [got_port EXCEPT ![h] = TRUE]
    BY <1>6, ZenonT(30) DEF GetPort, InDart
  <2>2. MainPortUnset(h) /\ ~MainPortUnset(h)'
    BY <2>1 DEF IndInv, MHTypeOK, MainPortUnset
  <2>. QED
    BY <2>1, <2>2, MainPortCount, MessageAssumption, ZenonT(30) DEF IndInv, MHTypeOK
<1>7. ASSUME NEW h \in Handlers, CreateRunPort(h) PROVE CountInv'
  <2>1. /\ InDart(h) /\ SetMainPortLive(h) /\ h \in Isolates /\ pc[h] = "construct"
        /\ pc' = [pc EXCEPT ![h] = "start"] /\ UNCHANGED got_port
    BY <1>7, ZenonT(30) DEF CreateRunPort, InDart
  <2>2. MainPortUnset(h) /\ ~MainPortUnset(h)'
    BY <2>1, ZenonT(30) DEF IndInv, MHTypeOK, CountInv, MainPortUnset
  <2>. QED
    BY <2>1, <2>2, MainPortCount, MessageAssumption, ZenonT(30) DEF IndInv, MHTypeOK
<1>8. ASSUME NEW h \in Handlers, Run(h) PROVE CountInv'
  <2>1. /\ pc[h] = "embedder" /\ pc' = [pc EXCEPT ![h] = "pool"]
        /\ \A k \in Handlers : k # h => start_callback'[k] = start_callback[k]
        /\ UNCHANGED <<owner, live, live_ports, main_port, got_port>>
    BY <1>8, ZenonT(30) DEF IndInv, MHTypeOK, Run
  <2>. QED
    BY <2>1, CountKept, MessageAssumption, ZenonT(30)
    DEF IndInv, MHTypeOK, CountInv, MainPortUnset
<1>9. ASSUME NEW h \in Handlers, NEW ok \in BOOLEAN,
             TaskCallback(h) \/ StartCallbackDone(h, ok) \/ HandleMessageDone(h, ok)
      PROVE  CountInv'
  BY <1>9, TaskCount
<1>10. ASSUME NEW h \in Handlers, HandleNextMessage(h) \/ HandleNextMessageDone(h)
       PROVE  CountInv'
  <2>1. PICK next \in {"handle next", "embedder"} : pc' = [pc EXCEPT ![h] = next]
    BY <1>10, ZenonT(30) DEF HandleNextMessage, HandleNextMessageDone, DequeueMessage
  <2>2. h \in MainIsolates /\ h \notin ClassIsolates /\ pc[h] # "unborn"
    <3>1. h \in Isolates /\ pc[h] # "unborn"
      BY <1>10, MessageAssumption, ZenonT(30)
      DEF IndInv, NativeInv, HandleNextMessage, HandleNextMessageDone, InDart
    <3>. QED
      BY <1>10, <3>1, MessageAssumption, ZenonT(30)
      DEF CountInv, HandleNextMessage, HandleNextMessageDone
  <2>3. UNCHANGED <<start_callback, owner, live, live_ports, main_port, got_port>>
    BY <1>10, ZenonT(30) DEF HandleNextMessage, HandleNextMessageDone
  <2>. QED
    BY <2>1, <2>2, <2>3, CountKept, MessageAssumption, ZenonT(30)
    DEF IndInv, MHTypeOK, CountInv, MainPortUnset
<1>11. ASSUME NEW h \in Handlers, StackCheck(h) \/ HandleOOBMessages(h) PROVE CountInv'
  <2>1. UNCHANGED <<pc, start_callback, owner, live, live_ports, main_port, got_port>>
    BY <1>11 DEF StackCheck, HandleOOBMessages
  <2>. QED
    BY <2>1, CountKept, ZenonT(30) DEF CountInv, MainPortUnset
<1>12. ASSUME NEW h \in Handlers, EndCallback(h) \/ CloseAllPorts(h) \/ DeleteHandler(h)
       PROVE  CountInv'
  <2>1. PICK next \in {"embedder", "exit", "flushed", "deleted"} :
          /\ pc' = [pc EXCEPT ![h] = next]
          /\ next = "embedder" => h \in MainIsolates
    BY <1>12 DEF EndCallback, CloseAllPorts, DeleteHandler
  <2>2. /\ pc[h] # "unborn"
        /\ UNCHANGED <<start_callback, owner, live, live_ports, main_port, got_port>>
    BY <1>12 DEF EndCallback, CloseAllPorts, DeleteHandler
  <2>3. \A k \in Isolates : pc'[k] = pc[k] \/ (k = h /\ pc'[k] = next)
    BY <2>1, MessageAssumption DEF IndInv, MHTypeOK
  <2>4. \A k \in Isolates : k \in ClassIsolates /\ MainPortUnset(k)' => MainPortUnset(k)
    BY <2>1, <2>2, <2>3, MessageAssumption, ZenonT(30) DEF MainPortUnset
  <2>. QED
    BY <2>2, <2>3, <2>4, CountKept, ZenonT(30) DEF CountInv
<1>13. ASSUME NEW h \in Handlers, Shutdown(h) PROVE CountInv'
  BY <1>13, ShutdownCount
<1>. QED
  BY <1>1, <1>2, <1>3, <1>4, <1>5, <1>6, <1>7, <1>8, <1>9, <1>10, <1>11, <1>12, <1>13, ZenonT(30)
  DEF MHNext

LEMMA InitCount == MHInit => CountInv
<1>. SUFFICES ASSUME MHInit, NEW h \in Isolates
              PROVE  live_ports[h] = Cardinality(LivePorts(h)) /\ pc[h] = "unborn"
  BY ZenonT(30) DEF CountInv
<1>1. LivePorts(h) = {}
  BY DEF MHInit, Init, LivePorts, PortsOf
<1>. QED
  BY <1>1, FS_EmptySet, MessageAssumption DEF MHInit

\* An isolate that stays on the pool without a task can be reached through a live
\* port: live_ports_, from which Run decides whether to go on, is exact.  The
\* condition is necessary: a class isolate that uses the getter `port' counts its
\* main port twice, and stays for ever.
THEOREM PoolMeansLive ==
  ASSUME ~PortInClassIsolate PROVE MHSpec => []RunsWhileLive
<1>1. IndInv /\ CountInv => RunsWhileLive
  <2>. SUFFICES ASSUME IndInv, CountInv, NEW h \in Isolates, pc[h] = "pool", task[h] = "none"
                PROVE  \E p \in PortsOf(h) : live[p]
    BY DEF RunsWhileLive
  <2>1. Cardinality(LivePorts(h)) > 0
    BY MessageAssumption, ZenonT(30) DEF IndInv, ThreadInv, CountInv
  <2>2. LivePorts(h) # {}
    BY <2>1, FS_EmptySet
  <2>. QED
    BY <2>2 DEF LivePorts
<1>2. MHInit => IndInv /\ CountInv
  BY InitInd, InitCount
<1>3. IndInv /\ CountInv /\ [MHNext]_mhVars => (IndInv /\ CountInv)'
  BY NextInd, NextCount
<1>. QED
  BY <1>1, <1>2, <1>3, PTL DEF MHSpec

-----------------------------------------------------------------------------
(* Interrupts.                                                             *)

USE DEF kApiInterrupt, kMessageInterrupt, Kinds, kInterruptsMask, WordAssumption

\* The low bits of the all-ones word.
LEMMA WordDivision == \E k \in Nat : AllOnes = 4 * k + 3
<1>1. AllOnes \div 4 \in Nat /\ AllOnes = 4 * (AllOnes \div 4) + 3
  BY WordAssumption
<1>. QED
  BY <1>1, ZenonT(30)

\* The words ScheduleInterrupts puts into stack_limit_ while one kind of
\* interrupt is requested.
LEMMA ScheduledWord ==
  /\ OrBit(AllOnes - 3, 1) = AllOnes - 2
  /\ OrBit(AllOnes - 3, 2) = AllOnes - 1
  /\ OrBit(AllOnes - 2, 1) = AllOnes - 2
  /\ OrBit(AllOnes - 1, 2) = AllOnes - 1
<1>1. PICK k \in Nat : AllOnes = 4 * k + 3
  BY WordDivision
<1>2. /\ ((AllOnes - 3) \div 1) % 2 = 0 /\ ((AllOnes - 3) \div 2) % 2 = 0
      /\ ((AllOnes - 2) \div 1) % 2 = 1 /\ ((AllOnes - 1) \div 2) % 2 = 1
  BY <1>1
<1>. QED
  BY <1>1, <1>2 DEF OrBit

\* What GetAndClearInterrupts reads from those words.
LEMMA ReadWord ==
  /\ {kind \in Kinds : (((AllOnes - 2) % 4) \div kind) % 2 = 1} = {kApiInterrupt}
  /\ {kind \in Kinds : (((AllOnes - 1) % 4) \div kind) % 2 = 1} = {kMessageInterrupt}
<1>1. PICK k \in Nat : AllOnes = 4 * k + 3
  BY WordDivision
<1>2. (AllOnes - 2) % 4 = 1 /\ (AllOnes - 1) % 4 = 2
  BY <1>1
<1>3. (1 \div 1) % 2 = 1 /\ (1 \div 2) % 2 = 0 /\ (2 \div 1) % 2 = 0 /\ (2 \div 2) % 2 = 1
  OBVIOUS
<1>. QED
  BY <1>2, <1>3

\* In a state of the invariant the requested interrupts are the ones the next
\* stack check delivers.
LEMMA InvPending == LimitInv => InterruptsPending
<1>. SUFFICES ASSUME LimitInv PROVE requested = PendingBits
  BY DEF InterruptsPending
<1>1. saved_stack_limit # AllOnes - 2 /\ saved_stack_limit # AllOnes - 1
  BY WordAssumption DEF LimitInv, LimitTypeOK
<1>2. CASE requested = {} /\ stack_limit = saved_stack_limit
  BY <1>2 DEF PendingBits
<1>3. CASE requested = {kApiInterrupt} /\ stack_limit = AllOnes - 2
  BY <1>1, <1>3, ReadWord DEF PendingBits
<1>4. CASE requested = {kMessageInterrupt} /\ stack_limit = AllOnes - 1
  BY <1>1, <1>4, ReadWord DEF PendingBits
<1>. QED
  BY <1>2, <1>3, <1>4 DEF LimitInv, PendingWord

\* SetStackLimit preserves the invariant's account of stack_limit_.
LEMMA SetStackLimitWord ==
  ASSUME LimitInv, NEW limit \in StackLimits \cup {AllOnes},
         SetStackLimit(limit), UNCHANGED requested
  PROVE  /\ PendingWord'
         /\ stack_limit' \in 0 .. AllOnes
         /\ saved_stack_limit' \in StackLimits \cup {AllOnes}
<1>1. saved_stack_limit # AllOnes - 2 /\ saved_stack_limit # AllOnes - 1
  BY WordAssumption DEF LimitInv, LimitTypeOK
<1>2. limit \in 0 .. AllOnes
  BY WordAssumption
<1>3. saved_stack_limit' = limit /\ stack_limit' \in {limit, stack_limit}
  BY DEF SetStackLimit
<1>4. PendingWord'
  BY <1>1 DEF LimitInv, PendingWord, SetStackLimit
<1>. QED
  BY <1>2, <1>3, <1>4 DEF LimitInv, LimitTypeOK

\* ScheduleInterrupts puts the word of its kind into stack_limit_, if no
\* interrupt of the other kind is pending.
LEMMA ScheduleWord ==
  ASSUME ~BothPending, LimitInv, NEW kind \in Kinds, ScheduleInterrupts(kind)
  PROVE  LimitInv'
<1>1. saved_stack_limit # AllOnes - 2 /\ saved_stack_limit # AllOnes - 1
  BY WordAssumption DEF LimitInv, LimitTypeOK
<1>2. \/ requested = {} /\ stack_limit = saved_stack_limit
      \/ requested = {kind} /\ stack_limit = AllOnes - 3 + kind
  BY WordAssumption DEF LimitInv, PendingWord, ScheduleInterrupts
<1>3. stack_limit' = AllOnes - 3 + kind
  <2>1. CASE kind = 1
    BY <1>1, <1>2, <2>1, ScheduledWord, WordAssumption DEF ScheduleInterrupts
  <2>2. CASE kind = 2
    BY <1>1, <1>2, <2>2, ScheduledWord, WordAssumption DEF ScheduleInterrupts
  <2>. QED
    BY <2>1, <2>2
<1>4. requested' = {kind}
  BY <1>2 DEF ScheduleInterrupts
<1>5. PendingWord'
  BY <1>3, <1>4, WordAssumption DEF PendingWord
<1>6. LimitTypeOK'
  BY <1>3, <1>4, WordAssumption DEF LimitInv, LimitTypeOK, ScheduleInterrupts
<1>. QED
  BY <1>5, <1>6 DEF LimitInv

\* Every step preserves the invariant.
LEMMA NextLimit ==
  ASSUME ~BothPending, LimitInv, [InterruptsNext]_limitVars
  PROVE  LimitInv'
<1>1. ASSUME NEW kind \in Kinds, ScheduleInterrupts(kind) PROVE LimitInv'
  BY <1>1, ScheduleWord
<1>2. ASSUME NEW limit \in StackLimits, StackOverflow(limit) PROVE LimitInv'
  <2>1. requested' = {} /\ stack_limit' = saved_stack_limit
        /\ UNCHANGED <<saved_stack_limit, scope, outer>>
    BY <1>2, InvPending DEF InterruptsPending, StackOverflow
  <2>2. saved_stack_limit \in 0 .. AllOnes
    BY WordAssumption DEF LimitInv, LimitTypeOK
  <2>. QED
    BY <2>1, <2>2 DEF LimitInv, LimitTypeOK, PendingWord
<1>3. ASSUME NEW limit \in StackLimits, StartIsolateScope(limit) PROVE LimitInv'
  BY <1>3, SetStackLimitWord DEF StartIsolateScope, LimitInv, LimitTypeOK
<1>4. ASSUME EndIsolateScope PROVE LimitInv'
  BY <1>4, SetStackLimitWord DEF EndIsolateScope, LimitInv, LimitTypeOK
<1>5. ASSUME SwitchIsolateScope PROVE LimitInv'
  BY <1>5 DEF SwitchIsolateScope, LimitInv, LimitTypeOK, PendingWord
<1>6. ASSUME EndSwitchIsolateScope PROVE LimitInv'
  <2>1. outer \in StackLimits \cup {AllOnes}
    BY <1>6 DEF EndSwitchIsolateScope, LimitInv, LimitTypeOK
  <2>. QED
    BY <1>6, <2>1, SetStackLimitWord DEF EndSwitchIsolateScope, LimitInv, LimitTypeOK
<1>7. ASSUME ExitIsolate \/ EnterIsolate PROVE LimitInv'
  BY <1>7, ZenonT(30) DEF ExitIsolate, EnterIsolate, LimitInv, LimitTypeOK, PendingWord
<1>8. ASSUME UNCHANGED limitVars PROVE LimitInv'
  BY <1>8 DEF limitVars, LimitInv, LimitTypeOK, PendingWord
<1>. QED
  BY <1>1, <1>2, <1>3, <1>4, <1>5, <1>6, <1>7, <1>8 DEF InterruptsNext

\* The invariant holds initially.
LEMMA InitLimit == InterruptsInit => LimitInv
  BY WordAssumption DEF InterruptsInit, LimitInv, LimitTypeOK, PendingWord

\* As long as interrupts of the two kinds (Dart_InterruptIsolate and OOB messages)
\* are not pending together, no interrupt is lost or invented: the next stack
\* check delivers exactly those scheduled since the last one, whatever scopes
\* begin and end in between.
THEOREM NoInterruptLost ==
  ASSUME ~BothPending PROVE InterruptsSpec => []InterruptsPending
  BY InitLimit, NextLimit, InvPending, PTL DEF InterruptsSpec

\* Under the same condition a stack overflow is never hidden by an interrupt.
THEOREM OverflowNoticed ==
  ASSUME ~BothPending PROVE InterruptsSpec => []OverflowIsNoticed
<1>1. LimitInv => OverflowIsNoticed
  <2>. SUFFICES ASSUME LimitInv, NEW stack_pos \in 0 .. AllOnes - 4,
                       stack_pos < saved_stack_limit
                PROVE  stack_pos < stack_limit
    BY DEF OverflowIsNoticed
  <2>. QED
    BY WordAssumption DEF LimitInv, LimitTypeOK, PendingWord
<1>. QED
  BY <1>1, InitLimit, NextLimit, PTL DEF InterruptsSpec
=============================================================================
