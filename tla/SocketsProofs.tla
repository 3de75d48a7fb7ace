--------------------------- MODULE SocketsProofs ---------------------------
(***************************************************************************)
(* Proofs about Sockets for any number of sockets and descriptors, any     *)
(* capacity of the pipe and any use of the handlers: who owns a            *)
(* descriptor, and, in the second half, that a socket read through a       *)
(* SocketInputStream is told of the end of its input.                      *)
(***************************************************************************)
EXTENDS Sockets, DataLemmas

\* Zenon for a moment, then SMT, then Zenon for longer.
USE ZenonT(2), SMTT(30), ZenonT(30)

kClose == {"kCloseCommand"}

Command ==
  [id : Fds, port : Socks \cup {ClosedPort},
   data : Masks \cup {kClose, {"kShutdownWriteCommand"}}]

\* A socket gets its descriptor when the lookup of its host name is done.
SocketObject ==
  {r \in [_id : Fds \cup {-1}, kind : Kinds \cup {"socket"}, lookup : BOOLEAN,
          _handler : BOOLEAN, _handlerMask : SUBSET {"in", "out", "close"},
          _canActivateHandlers : BOOLEAN, _closedRead : BOOLEAN, _closedWrite : BOOLEAN] :
     r.lookup => ~Open(r)}

SocketsTypeOK ==
  /\ interrupt_fds_ \in Seq(Command)
  /\ socket_map_ \in [Fds -> SocketData \cup {NULL}]
  /\ epoll_fd_ \in [Fds -> (SUBSET {"EPOLLIN", "EPOLLOUT"}) \cup {NULL}]
  /\ file \in [Fds -> File \cup {NULL}]
  /\ sock \in [Socks -> SocketObject]

\* A socket owns its descriptor alone; the descriptor is open, and no command
\* to close it is under way.  An open descriptor has an owner or such a command.
OwnerInv ==
  /\ \A s, t \in Socks : Open(sock[s]) /\ sock[s]._id = sock[t]._id => s = t
  /\ \A s \in Socks :
       Open(sock[s]) => file[sock[s]._id] # NULL /\ ~ClosePending(sock[s]._id)
  /\ \A fd \in Fds :
       file[fd] # NULL => ClosePending(fd) \/ \E s \in Socks : sock[s]._id = fd

\* Commands are for open descriptors, and the command to close is the last one.
CommandInv ==
  \A i \in DOMAIN interrupt_fds_ :
    /\ file[interrupt_fds_[i].id] # NULL
    /\ interrupt_fds_[i].data = kClose =>
         \A j \in DOMAIN interrupt_fds_ : interrupt_fds_[j].id = interrupt_fds_[i].id => j <= i

Tracked(fd) == socket_map_[fd] # NULL /\ socket_map_[fd].tracked

\* Events are handled before commands are read, one event for each descriptor.
EventInv ==
  /\ events # {} => pc = "events"
  /\ \A e \in events : e.fd \in Fds /\ Tracked(e.fd)
  /\ \A e, f \in events : e.fd = f.fd => e = f

EpollInv ==
  \A fd \in Fds :
    /\ Tracked(fd) <=> epoll_fd_[fd] # NULL
    /\ Tracked(fd) => file[fd] # NULL /\ socket_map_[fd].port # NoPort

SocketsInv == SocketsTypeOK /\ OwnerInv /\ CommandInv /\ EventInv /\ EpollInv

-----------------------------------------------------------------------------
(* The isolate's side.  Its steps change one socket, open at most one       *)
(* descriptor for it and send at most one command for its descriptor.       *)

\* What a method called for s may do: it leaves the descriptor alone, or sends
\* a command for it, and with the command to close it forgets it.
Outcome(r, result) ==
  /\ result.sock \in SocketObject
  /\ \/ result.sends = <<>> /\ result.sock._id = r._id
     \/ /\ Open(r)
        /\ \E m \in Command :
             /\ result.sends = <<m>> /\ m.id = r._id
             /\ result.sock._id = IF m.data = kClose THEN -1 ELSE r._id

\* The mask that is sent is one the event handler understands.
LEMMA HandlerDataMask ==
  ASSUME NEW r \in SocketObject
  PROVE  HandlerData(r) \in Masks /\ HandlerData(r) # kClose
  BY DEF HandlerData, Flags, Masks, SocketObject, kClose

\* The outcomes of the methods of _SocketBase.
LEMMA QuietOutcome ==
  ASSUME NEW r \in SocketObject, NEW t \in SocketObject, t._id = r._id
  PROVE  Outcome(r, Quiet(t))
  BY DEF Outcome, Quiet

LEMMA SendOutcome ==
  ASSUME NEW s \in Socks, NEW r \in SocketObject, Open(r), NEW data,
         data \in Masks \cup {{"kShutdownWriteCommand"}}, data # kClose
  PROVE  Outcome(r, SendToEventHandler(s, r, data))
<1>1. InterruptMessage(r._id, s, data) \in Command
  BY DEF InterruptMessage, Command, SocketObject, Open
<1>2. [r EXCEPT !._handler = TRUE] \in SocketObject
  BY ZenonT(30) DEF SocketObject
<1>. QED
  BY <1>1, <1>2 DEF Outcome, SendToEventHandler, InterruptMessage, SocketObject

LEMMA ActivateOutcome ==
  ASSUME NEW s \in Socks, NEW r \in SocketObject
  PROVE  Outcome(r, ActivateHandlers(s, r))
<1>1. [r EXCEPT !._handler = FALSE] \in SocketObject /\ [r EXCEPT !._handler = FALSE]._id = r._id
  BY ZenonT(30) DEF SocketObject, Open
<1>2. CASE ~r._canActivateHandlers \/ ~Open(r)
  BY <1>2, QuietOutcome DEF ActivateHandlers
<1>3. CASE r._canActivateHandlers /\ Open(r) /\ r._handlerMask = {}
  BY <1>1, <1>3, QuietOutcome, ZenonT(30) DEF ActivateHandlers
<1>4. CASE r._canActivateHandlers /\ Open(r) /\ r._handlerMask # {}
  <2>1. ActivateHandlers(s, r) = SendToEventHandler(s, r, HandlerData(r))
    BY <1>4 DEF ActivateHandlers
  <2>. QED
    BY <1>4, <2>1, HandlerDataMask, SendOutcome
<1>. QED
  BY <1>2, <1>3, <1>4

LEMMA SetHandlerOutcome ==
  ASSUME NEW s \in Socks, NEW r \in SocketObject, NEW mask \in SUBSET {"in", "out", "close"}
  PROVE  Outcome(r, SetHandlerMask(s, r, mask))
<1>. DEFINE set == [r EXCEPT !._handlerMask = mask]
            off == [set EXCEPT !._handler = FALSE]
<1>1. set \in SocketObject /\ set._id = r._id /\ off \in SocketObject /\ off._id = r._id
  BY ZenonT(30) DEF SocketObject, Open
<1>2. Outcome(set, ActivateHandlers(s, set)) => Outcome(r, ActivateHandlers(s, set))
  BY <1>1 DEF Outcome, Open
<1>3. Outcome(r, ActivateHandlers(s, set)) /\ Outcome(r, Quiet(off))
  BY <1>1, <1>2, ActivateOutcome, QuietOutcome, ZenonT(30)
<1>. QED
  BY <1>3 DEF SetHandlerMask

LEMMA CloseOutcome ==
  ASSUME NEW s \in Socks, NEW r \in SocketObject
  PROVE  Outcome(r, CloseSocket(s, r))
<1>. DEFINE shut == [r EXCEPT !._handler = FALSE, !._id = -1]
            m == InterruptMessage(r._id, s, kClose)
<1>1. CASE ~Open(r)
  BY <1>1, QuietOutcome DEF CloseSocket
<1>2. CASE Open(r)
  <2>1. CloseSocket(s, r) = [sock |-> shut, sends |-> <<m>>]
    BY <1>2 DEF CloseSocket, kClose
  <2>2. shut \in SocketObject /\ shut._id = -1
    BY ZenonT(30) DEF SocketObject, Open
  <2>3. m \in Command /\ m.id = r._id /\ m.data = kClose
    BY <1>2 DEF InterruptMessage, Command, SocketObject, Open, kClose
  <2>. HIDE DEF shut, m
  <2>4. [sock |-> shut, sends |-> <<m>>].sock = shut /\ [sock |-> shut, sends |-> <<m>>].sends = <<m>>
    OBVIOUS
  <2>. QED
    BY <1>2, <2>1, <2>2, <2>3, <2>4 DEF Outcome
<1>. QED
  BY <1>1, <1>2

LEMMA CloseWriteOutcome ==
  ASSUME NEW s \in Socks, NEW r \in SocketObject
  PROVE  Outcome(r, CloseWrite(s, r))
<1>. DEFINE closed == [r EXCEPT !._closedWrite = TRUE]
<1>1. closed \in SocketObject /\ closed._id = r._id
  BY ZenonT(30) DEF SocketObject, Open
<1>2. \A result : Outcome(closed, result) => Outcome(r, result)
  BY <1>1 DEF Outcome, Open
<1>3. CASE ~Open(r)
  BY <1>3, QuietOutcome DEF CloseWrite
<1>4. CASE Open(r) /\ r._closedRead
  BY <1>1, <1>2, <1>4, CloseOutcome, ZenonT(30) DEF CloseWrite
<1>5. CASE Open(r) /\ ~r._closedRead
  <2>1. Open(closed) /\ {"kShutdownWriteCommand"} # kClose
    BY <1>1, <1>5 DEF Open, kClose
  <2>2. Outcome(closed, SendToEventHandler(s, closed, {"kShutdownWriteCommand"}))
    BY <1>1, <2>1, SendOutcome
  <2>. QED
    BY <1>2, <1>5, <2>2, ZenonT(30) DEF CloseWrite
<1>. QED
  BY <1>3, <1>4, <1>5

\* What the isolate's steps have in common: s has or gets the descriptor id,
\* and at most one command for it is sent, after which s has given it up or not.
IsolateStep(s, id) ==
  /\ id = sock[s]._id \/ (~Open(sock[s]) /\ id \in Fds /\ file[id] = NULL)
  /\ sock' \in [Socks -> SocketObject]
  /\ \A t \in Socks \ {s} : sock'[t]._id = sock[t]._id
  /\ file' \in [Fds -> File \cup {NULL}]
  /\ \A fd \in Fds : file'[fd] # NULL <=> file[fd] # NULL \/ fd = id
  /\ interrupt_fds_' \in Seq(Command)
  /\ \A i \in 1..Len(interrupt_fds_) :
       /\ interrupt_fds_'[i].id = interrupt_fds_[i].id
       /\ interrupt_fds_'[i].data = interrupt_fds_[i].data
  /\ \/ Len(interrupt_fds_') = Len(interrupt_fds_) /\ sock'[s]._id = id
     \/ /\ Len(interrupt_fds_') = Len(interrupt_fds_) + 1 /\ id # -1
        /\ interrupt_fds_'[Len(interrupt_fds_')].id = id
        /\ sock'[s]._id =
             IF interrupt_fds_'[Len(interrupt_fds_')].data = kClose THEN -1 ELSE id
  /\ socket_map_' \in [Fds -> SocketData \cup {NULL}]
  /\ \A fd \in Fds :
       /\ socket_map_'[fd] = NULL <=> socket_map_[fd] = NULL
       /\ socket_map_[fd] # NULL =>
            /\ socket_map_'[fd].tracked = socket_map_[fd].tracked
            /\ socket_map_'[fd].port = NoPort <=> socket_map_[fd].port = NoPort
  /\ UNCHANGED <<epoll_fd_, pc, events>>

\* No command is under way for a descriptor that is not open.
LEMMA FreeHasNoCommand ==
  ASSUME SocketsInv, NEW fd \in Fds, file[fd] = NULL
  PROVE  MessagesFor(fd) = {} /\ \A s \in Socks : sock[s]._id # fd
<1>1. \A s \in Socks : sock[s]._id = fd => Open(sock[s])
  BY EventHandlerAssumption DEF Open
<1>. QED
  BY <1>1 DEF SocketsInv, OwnerInv, CommandInv, MessagesFor

\* Every step of the isolate with such an outcome keeps the invariant.
LEMMA IsolateStepInv ==
  ASSUME SocketsInv, NEW s \in Socks, NEW id, IsolateStep(s, id)
  PROVE  SocketsInv'
<1>. PICK p, q, n : p = interrupt_fds_' /\ q = interrupt_fds_ /\ n = Len(q)
  BY ZenonT(30)
<1>1. id \in Fds \cup {-1} /\ sock'[s]._id \in {id, -1} /\ -1 \notin Fds
  BY EventHandlerAssumption DEF IsolateStep, SocketsInv, SocketsTypeOK, SocketObject
<1>2. /\ q \in Seq(Command) /\ n \in Nat /\ DOMAIN q = 1..n
      /\ p \in Seq(Command) /\ DOMAIN p = 1..Len(p) /\ Len(p) \in Nat
  BY DEF IsolateStep, SocketsInv, SocketsTypeOK
<1>3. SocketsTypeOK'
  BY DEF IsolateStep, SocketsInv, SocketsTypeOK
<1>4. EventInv'
  BY DEF IsolateStep, SocketsInv, EventInv, Tracked
<1>5. EpollInv'
  BY DEF IsolateStep, SocketsInv, EpollInv, Tracked
<1>6. \A i \in 1..n : p[i].id = q[i].id /\ p[i].data = q[i].data /\ q[i].id \in Fds
  <2>1. \A i \in 1..n : p[i].id = q[i].id /\ p[i].data = q[i].data
    BY DEF IsolateStep
  <2>2. \A i \in 1..n : q[i] \in Command
    BY <1>2
  <2>. QED
    BY <2>1, <2>2 DEF Command
<1>7. id # -1 => \/ /\ id = sock[s]._id /\ file[id] # NULL /\ ~ClosePending(id)
                 \/ file[id] = NULL /\ ~Open(sock[s])
  BY DEF IsolateStep, SocketsInv, OwnerInv, Open
<1>. DEFINE sent == p[Len(p)]
<1>12. \/ Len(p) = n /\ sock'[s]._id = id
       \/ /\ Len(p) = n + 1 /\ id # -1 /\ sent.id = id
          /\ sock'[s]._id = IF sent.data = kClose THEN -1 ELSE id
  BY DEF IsolateStep
<1>8. \A i \in 1..n : q[i].id = id => q[i].data # kClose /\ file[id] # NULL
  BY <1>1, <1>2, <1>6, <1>7 DEF SocketsInv, CommandInv, ClosePending, MessagesFor, kClose
<1>13. \A fd \in Fds : file'[fd] # NULL <=> file[fd] # NULL \/ fd = id
  BY DEF IsolateStep
<1>14. \A i \in 1..n : /\ file[q[i].id] # NULL
                       /\ q[i].data = kClose => \A j \in 1..n : q[j].id = q[i].id => j <= i
  BY <1>2 DEF SocketsInv, CommandInv
<1>. HIDE DEF sent
<1>16. n \in Nat /\ (Len(p) = n \/ Len(p) = n + 1)
  BY <1>2, <1>12, ZenonT(30)
<1>15. \A i \in 1..Len(p) : i \in 1..n \/ (i = n + 1 /\ Len(p) = n + 1)
  BY <1>16
<1>9. CommandInv'
  <2> SUFFICES ASSUME NEW i \in 1..Len(p)
               PROVE  /\ file'[p[i].id] # NULL
                      /\ p[i].data = kClose =>
                           \A j \in 1..Len(p) : p[j].id = p[i].id => j <= i
    BY <1>2 DEF CommandInv
  <2>1. CASE i \in 1..n
    <3>1. file'[p[i].id] # NULL
      BY <1>6, <1>13, <1>14, <2>1
    <3>2. ASSUME p[i].data = kClose, NEW j \in 1..Len(p), p[j].id = p[i].id PROVE j <= i
      <4>1. CASE j \in 1..n
        BY <1>6, <1>14, <2>1, <3>2, <4>1
      <4>2. CASE j = n + 1 /\ Len(p) = n + 1
        <5>1. p[j].id = id
          BY <1>2, <1>12, <4>2 DEF sent
        <5>. QED
          BY <1>6, <1>8, <2>1, <3>2, <5>1, ZenonT(30)
      <4>. QED
        BY <1>15, <4>1, <4>2
    <3>. QED
      BY <3>1, <3>2
  <2>2. CASE i = n + 1 /\ Len(p) = n + 1
    <3>1. p[i].id = id /\ id # -1
      BY <1>2, <1>12, <2>2 DEF sent
    <3>2. \A j \in 1..Len(p) : j <= i
      BY <1>2, <2>2
    <3>. QED
      BY <1>1, <1>13, <3>1, <3>2
  <2>. QED
    BY <1>15, <2>1, <2>2
<1>. DEFINE Closes == Len(p) = n + 1 /\ sent.data = kClose
<1>10. \A fd \in Fds : ClosePending(fd)' <=> ClosePending(fd) \/ (fd = id /\ Closes)
  <2> SUFFICES ASSUME NEW fd \in Fds
               PROVE  (\E i \in 1..Len(p) : p[i].id = fd /\ p[i].data = kClose)
                      <=> \/ \E i \in 1..n : q[i].id = fd /\ q[i].data = kClose
                          \/ fd = id /\ Closes
    <3>1. \A fd \in Fds :
            ClosePending(fd) <=> \E i \in 1..n : q[i].id = fd /\ q[i].data = kClose
      BY <1>2, ZenonT(30) DEF ClosePending, MessagesFor, kClose
    <3>2. \A fd \in Fds :
            ClosePending(fd)' <=> \E i \in 1..Len(p) : p[i].id = fd /\ p[i].data = kClose
      BY <1>2, ZenonT(30) DEF ClosePending, MessagesFor, kClose
    <3>. QED
      BY <3>1, <3>2
  <2>1. Len(p) = n + 1 => sent.id = id
    BY <1>2, <1>12
  <2>2. 1..n \subseteq 1..Len(p) /\ (Len(p) = n + 1 => n + 1 \in 1..Len(p))
    BY <1>16
  <2>3. ASSUME NEW i \in 1..Len(p), p[i].id = fd, p[i].data = kClose
        PROVE  \/ \E k \in 1..n : q[k].id = fd /\ q[k].data = kClose
               \/ fd = id /\ Closes
    BY <1>6, <1>15, <2>1, <2>3 DEF sent
  <2>4. ASSUME NEW i \in 1..n, q[i].id = fd, q[i].data = kClose
        PROVE  \E k \in 1..Len(p) : p[k].id = fd /\ p[k].data = kClose
    BY <1>6, <2>2, <2>4
  <2>5. ASSUME fd = id, Closes
        PROVE  \E k \in 1..Len(p) : p[k].id = fd /\ p[k].data = kClose
    BY <2>1, <2>2, <2>5 DEF sent
  <2>. QED
    BY <2>3, <2>4, <2>5
<1>11. OwnerInv'
  <2>1. ASSUME NEW t \in Socks, NEW u \in Socks, Open(sock'[t]), sock'[t]._id = sock'[u]._id
        PROVE  t = u
    <3>1. \A v \in Socks \ {s} : sock[v]._id = id => id = -1
      BY <1>1, <1>7, FreeHasNoCommand DEF SocketsInv, OwnerInv, Open
    <3>. QED
      BY <1>1, <2>1, <3>1 DEF IsolateStep, SocketsInv, OwnerInv, Open
  <2>2. ASSUME NEW t \in Socks, Open(sock'[t])
        PROVE  \E fd \in Fds : sock'[t]._id = fd /\ file'[fd] # NULL /\ ~ClosePending(fd)'
    <3>. sock'[t]._id \in Fds
      BY <1>3, <2>2 DEF SocketsTypeOK, SocketObject, Open
    <3>1. CASE t = s
      <4>1. sock'[s]._id = id /\ id # -1 /\ ~Closes
        <5>1. sock'[s]._id # -1
          BY <2>2, <3>1 DEF Open
        <5>. QED
          BY <1>1, <1>12, <1>16, <5>1
      <4>2. ~ClosePending(id)
        BY <1>2, <1>8 DEF ClosePending, MessagesFor, kClose
      <4>. QED
        BY <1>1, <1>10, <1>13, <3>1, <4>1, <4>2
    <3>2. CASE t # s
      <4>1. sock'[t]._id = sock[t]._id /\ Open(sock[t])
        BY <2>2, <3>2 DEF IsolateStep, Open
      <4>2. sock[t]._id # id
        BY <1>7, <3>2, <4>1, FreeHasNoCommand DEF SocketsInv, OwnerInv, Open
      <4>. QED
        <5>1. file[sock[t]._id] # NULL /\ ~ClosePending(sock[t]._id)
          BY <4>1 DEF SocketsInv, OwnerInv
        <5>. QED
          BY <1>10, <1>13, <4>1, <4>2, <5>1
    <3>. QED
      BY <3>1, <3>2
  <2>3. ASSUME NEW fd \in Fds, file'[fd] # NULL, ~ClosePending(fd)'
        PROVE  \E t \in Socks : sock'[t]._id = fd
    <3>1. CASE fd = id
      <4>1. ~Closes
        BY <1>10, <2>3, <3>1
      <4>. QED
        BY <1>12, <2>3, <3>1, <4>1
    <3>2. CASE fd # id
      <4>1. file[fd] # NULL /\ ~ClosePending(fd)
        BY <1>10, <2>3, <3>2 DEF IsolateStep
      <4>2. PICK t \in Socks : sock[t]._id = fd
        BY <4>1 DEF SocketsInv, OwnerInv
      <4>3. CASE t # s
        BY <4>2, <4>3 DEF IsolateStep
      <4>4. CASE t = s
        BY <1>1, <3>2, <4>2, <4>4, EventHandlerAssumption DEF IsolateStep, Open
      <4>. QED
        BY <4>3, <4>4
    <3>. QED
      BY <3>1, <3>2
  <2>. QED
    BY <2>1, <2>2, <2>3 DEF OwnerInv, ClosePending, MessagesFor
<1>. QED
  BY <1>3, <1>4, <1>5, <1>9, <1>11 DEF SocketsInv

\* Sending appends the commands, and closing ports only renames them.
LEMMA SendEffect ==
  ASSUME SocketsInv, NEW msgs \in Seq(Command), NEW closed \in SUBSET Socks,
         SendData(msgs, closed)
  PROVE  /\ interrupt_fds_' \in Seq(Command)
         /\ Len(interrupt_fds_') = Len(interrupt_fds_) + Len(msgs)
         /\ \A i \in 1..Len(interrupt_fds_) :
              /\ interrupt_fds_'[i].id = interrupt_fds_[i].id
              /\ interrupt_fds_'[i].data = interrupt_fds_[i].data
         /\ \A i \in 1..Len(msgs) :
              /\ interrupt_fds_'[Len(interrupt_fds_) + i].id = msgs[i].id
              /\ interrupt_fds_'[Len(interrupt_fds_) + i].data = msgs[i].data
         /\ socket_map_' \in [Fds -> SocketData \cup {NULL}]
         /\ \A fd \in Fds :
              /\ socket_map_'[fd] = NULL <=> socket_map_[fd] = NULL
              /\ socket_map_[fd] # NULL =>
                   /\ socket_map_'[fd].tracked = socket_map_[fd].tracked
                   /\ socket_map_'[fd].port = NoPort <=> socket_map_[fd].port = NoPort
<1>. DEFINE sent == interrupt_fds_ \o msgs
            n == Len(interrupt_fds_)
<1>1. interrupt_fds_ \in Seq(Command) /\ sent \in Seq(Command) /\ n \in Nat
  BY DEF SocketsInv, SocketsTypeOK
<1>2. /\ Len(sent) = n + Len(msgs) /\ DOMAIN sent = 1..Len(sent) /\ Len(sent) \in Nat
      /\ \A i \in 1..n : sent[i] = interrupt_fds_[i]
      /\ \A i \in 1..Len(msgs) : sent[n + i] = msgs[i]
  BY <1>1
<1>3. \A i \in 1..Len(sent) : sent[i] \in Command
  BY <1>1, <1>2
<1>. DEFINE Closed(m) == [m EXCEPT !.port = Retire(@, closed)]
<1>4. \A m \in Command : Closed(m) \in Command /\ Closed(m).id = m.id /\ Closed(m).data = m.data
  BY DEF Command, Retire
<1>5. interrupt_fds_' = [i \in 1..Len(sent) |-> Closed(sent[i])]
  BY <1>2 DEF SendData
<1>. HIDE DEF sent, n, Closed
<1>6. interrupt_fds_' \in [1..Len(sent) -> Command]
  BY <1>3, <1>4, <1>5
<1>7. interrupt_fds_' \in Seq(Command) /\ Len(interrupt_fds_') = Len(sent)
  BY <1>2, <1>6
<1>8. \A i \in 1..Len(sent) : /\ interrupt_fds_'[i].id = sent[i].id
                              /\ interrupt_fds_'[i].data = sent[i].data
  BY <1>3, <1>4, <1>5
<1>9. \A i \in 1..n : i \in 1..Len(sent)
  BY <1>1, <1>2
<1>10. \A i \in 1..Len(msgs) : n + i \in 1..Len(sent)
  BY <1>1, <1>2
<1>. DEFINE Renamed(sd) == IF sd = NULL THEN NULL ELSE [sd EXCEPT !.port = Retire(@, closed)]
<1>11. \A sd \in SocketData :
         /\ Renamed(sd) \in SocketData
         /\ Renamed(sd).tracked = sd.tracked
         /\ Renamed(sd).port = NoPort <=> sd.port = NoPort
  BY SocketsAssumption, EventHandlerAssumption DEF SocketData, Retire
<1>12. socket_map_' = [fd \in Fds |-> Renamed(socket_map_[fd])]
  BY DEF SendData
<1>13. /\ Renamed(NULL) = NULL /\ NULL \notin SocketData
       /\ \A fd \in Fds : socket_map_[fd] \in SocketData \cup {NULL}
  BY SocketsAssumption DEF SocketsInv, SocketsTypeOK
<1>. HIDE DEF Renamed
<1>14. /\ socket_map_' \in [Fds -> SocketData \cup {NULL}]
       /\ \A fd \in Fds :
              /\ socket_map_'[fd] = NULL <=> socket_map_[fd] = NULL
              /\ socket_map_[fd] # NULL =>
                   /\ socket_map_'[fd].tracked = socket_map_[fd].tracked
                   /\ socket_map_'[fd].port = NoPort <=> socket_map_[fd].port = NoPort
  BY <1>11, <1>12, <1>13
<1>15. \A i \in 1..n : /\ interrupt_fds_'[i].id = interrupt_fds_[i].id
                       /\ interrupt_fds_'[i].data = interrupt_fds_[i].data
  BY <1>2, <1>8, <1>9
<1>16. \A i \in 1..Len(msgs) : /\ interrupt_fds_'[n + i].id = msgs[i].id
                               /\ interrupt_fds_'[n + i].data = msgs[i].data
  BY <1>2, <1>8, <1>10
<1>. QED
  BY <1>2, <1>7, <1>14, <1>15, <1>16, ZenonT(30) DEF n

\* An action that does what a method of s has returned.
LEMMA DoesStep ==
  ASSUME SocketsInv, NEW s \in Socks, NEW r \in SocketObject, NEW result,
         Outcome(r, result), Does(s, result),
         r._id = sock[s]._id \/ (~Open(sock[s]) /\ r._id \in Fds /\ file[r._id] = NULL),
         file' \in [Fds -> File \cup {NULL}],
         \A fd \in Fds : file'[fd] # NULL <=> file[fd] # NULL \/ fd = r._id,
         UNCHANGED <<epoll_fd_, pc, events>>
  PROVE  IsolateStep(s, r._id)
<1>. DEFINE msgs == result.sends
            closed == IF result.sock._handler THEN {} ELSE {s}
<1>1. msgs \in Seq(Command) /\ closed \in SUBSET Socks /\ SendData(msgs, closed)
  <2>1. msgs = <<>> \/ \E m \in Command : msgs = <<m>>
    BY ZenonT(30) DEF Outcome
  <2>2. <<>> \in Seq(Command) /\ \A m \in Command : <<m>> \in Seq(Command)
    OBVIOUS
  <2>3. msgs \in Seq(Command)
    <3>. HIDE DEF msgs
    <3>. QED
      BY <2>1, <2>2, ZenonT(30)
  <2>. QED
    BY <2>3 DEF Does
<1>2. Forgotten \in SocketObject /\ Forgotten._id = -1
  BY DEF Forgotten, NewSocket, SocketObject
<1>3. sock' \in [Socks -> SocketObject] /\ sock'[s]._id = result.sock._id
  <2>1. sock \in [Socks -> SocketObject] /\ result.sock \in SocketObject
    BY DEF SocketsInv, SocketsTypeOK, Outcome
  <2>2. \/ sock' = [sock EXCEPT ![s] = result.sock]
        \/ ~Open(result.sock) /\ sock' = [sock EXCEPT ![s] = Forgotten]
    BY ZenonT(30) DEF Does
  <2>. QED
    BY <1>2, <2>1, <2>2 DEF Open
<1>4. \A t \in Socks \ {s} : sock'[t]._id = sock[t]._id
  BY DEF Does, SocketsInv, SocketsTypeOK
<1>. HIDE DEF msgs, closed
<1>5. /\ interrupt_fds_' \in Seq(Command)
      /\ Len(interrupt_fds_') = Len(interrupt_fds_) + Len(msgs)
      /\ \A i \in 1..Len(interrupt_fds_) :
           /\ interrupt_fds_'[i].id = interrupt_fds_[i].id
           /\ interrupt_fds_'[i].data = interrupt_fds_[i].data
      /\ socket_map_' \in [Fds -> SocketData \cup {NULL}]
      /\ \A fd \in Fds :
           /\ socket_map_'[fd] = NULL <=> socket_map_[fd] = NULL
           /\ socket_map_[fd] # NULL =>
                /\ socket_map_'[fd].tracked = socket_map_[fd].tracked
                /\ socket_map_'[fd].port = NoPort <=> socket_map_[fd].port = NoPort
  BY <1>1, SendEffect
<1>6. \A i \in 1..Len(msgs) :
           /\ interrupt_fds_'[Len(interrupt_fds_) + i].id = msgs[i].id
           /\ interrupt_fds_'[Len(interrupt_fds_) + i].data = msgs[i].data
  BY <1>1, SendEffect
<1>7. \/ Len(interrupt_fds_') = Len(interrupt_fds_) /\ sock'[s]._id = r._id
      \/ /\ Len(interrupt_fds_') = Len(interrupt_fds_) + 1 /\ r._id # -1
         /\ interrupt_fds_'[Len(interrupt_fds_')].id = r._id
         /\ sock'[s]._id =
              IF interrupt_fds_'[Len(interrupt_fds_')].data = kClose THEN -1 ELSE r._id
  <2>. interrupt_fds_ \in Seq(Command) /\ Len(interrupt_fds_) \in Nat
    BY DEF SocketsInv, SocketsTypeOK
  <2>1. CASE msgs = <<>> /\ result.sock._id = r._id
    BY <1>3, <1>5, <2>1
  <2>2. ASSUME NEW m \in Command, msgs = <<m>>, m.id = r._id, Open(r),
               result.sock._id = IF m.data = kClose THEN -1 ELSE r._id
        PROVE  /\ Len(interrupt_fds_') = Len(interrupt_fds_) + 1 /\ r._id # -1
               /\ interrupt_fds_'[Len(interrupt_fds_')].id = r._id
               /\ sock'[s]._id =
                    IF interrupt_fds_'[Len(interrupt_fds_')].data = kClose THEN -1 ELSE r._id
    <3>1. Len(msgs) = 1 /\ msgs[1] = m
      BY <2>2
    <3>2. Len(interrupt_fds_') = Len(interrupt_fds_) + 1
      BY <1>5, <3>1
    <3>3. interrupt_fds_'[Len(interrupt_fds_) + 1].id = m.id /\ interrupt_fds_'[Len(interrupt_fds_) + 1].data = m.data
      BY <1>6, <3>1
    <3>. QED
      BY <1>3, <2>2, <3>2, <3>3 DEF Open
  <2>. QED
    BY <2>1, <2>2 DEF Outcome, msgs
<1>. QED
  BY <1>3, <1>4, <1>5, <1>7 DEF IsolateStep

\* The same for an action that leaves the descriptors of the kernel alone.
LEMMA DoesHere ==
  ASSUME SocketsInv, NEW s \in Socks, NEW r \in SocketObject, NEW result,
         Outcome(r, result), Does(s, result), r._id = sock[s]._id,
         UNCHANGED <<file, epoll_fd_, pc, events>>
  PROVE  SocketsInv'
<1>1. file' \in [Fds -> File \cup {NULL}]
  BY DEF SocketsInv, SocketsTypeOK
<1>2. \A fd \in Fds : file'[fd] # NULL <=> file[fd] # NULL \/ fd = r._id
  BY EventHandlerAssumption DEF SocketsInv, OwnerInv, Open
<1>3. IsolateStep(s, r._id)
  BY <1>1, <1>2, DoesStep
<1>. QED
  BY <1>3, IsolateStepInv

\* A step that sends nothing.
LEMMA SilentStep ==
  ASSUME SocketsInv, NEW s \in Socks, NEW id,
         id = sock[s]._id \/ (~Open(sock[s]) /\ id \in Fds /\ file[id] = NULL),
         sock' \in [Socks -> SocketObject], sock'[s]._id = id,
         \A t \in Socks \ {s} : sock'[t]._id = sock[t]._id,
         file' \in [Fds -> File \cup {NULL}],
         \A fd \in Fds : file'[fd] # NULL <=> file[fd] # NULL \/ fd = id,
         UNCHANGED <<interrupt_fds_, socket_map_, epoll_fd_, pc, events>>
  PROVE  SocketsInv'
<1>1. interrupt_fds_' \in Seq(Command) /\ socket_map_' \in [Fds -> SocketData \cup {NULL}]
  BY DEF SocketsInv, SocketsTypeOK
<1>2. IsolateStep(s, id)
  BY <1>1 DEF IsolateStep
<1>. QED
  BY <1>2, IsolateStepInv

\* The descriptor of an open socket is open.
LEMMA SocketTypes ==
  ASSUME SocketsInv, NEW s \in Socks
  PROVE  /\ sock \in [Socks -> SocketObject] /\ file \in [Fds -> File \cup {NULL}]
         /\ sock[s] \in SocketObject /\ sock[s]._id \in Fds \cup {-1} /\ -1 \notin Fds
         /\ Open(sock[s]) => sock[s]._id \in Fds /\ file[sock[s]._id] \in File
         /\ NULL \notin File
<1>1. sock \in [Socks -> SocketObject] /\ file \in [Fds -> File \cup {NULL}]
  BY DEF SocketsInv, SocketsTypeOK
<1>2. sock[s] \in SocketObject /\ sock[s]._id \in Fds \cup {-1} /\ -1 \notin Fds
  BY <1>1, EventHandlerAssumption DEF SocketObject
<1>. QED
  BY <1>1, <1>2, SocketsAssumption DEF SocketsInv, OwnerInv, Open

LEMMA NewTypes ==
  ASSUME NEW kind \in Kinds \cup {"socket"}, NEW lookup \in BOOLEAN, NEW fd \in Fds
  PROVE  /\ NewSocket(kind, lookup) \in SocketObject /\ NewSocket(kind, lookup)._id = -1
         /\ [NewSocket(kind, FALSE) EXCEPT !._id = fd] \in SocketObject
         /\ NewFile(kind) \in File
         /\ [NewFile(kind) EXCEPT !.room = FALSE] \in File
<1>1. NewSocket(kind, lookup) \in SocketObject /\ NewSocket(kind, lookup)._id = -1
  BY DEF NewSocket, SocketObject, Open
<1>2. [NewSocket(kind, FALSE) EXCEPT !._id = fd] \in SocketObject
  <2>1. NewSocket(kind, FALSE) \in SocketObject /\ NewSocket(kind, FALSE).lookup = FALSE
    BY DEF NewSocket, SocketObject, Open
  <2>. QED
    BY <2>1, ZenonT(30) DEF SocketObject
<1>3. NewFile(kind) \in File /\ [NewFile(kind) EXCEPT !.room = FALSE] \in File
  BY ZenonT(30) DEF NewFile, File
<1>. QED
  BY <1>1, <1>2, <1>3

\* Opening a descriptor for a socket that has none.
LEMMA OpenStep ==
  ASSUME SocketsInv, NEW s \in Socks, NEW fd \in Fds, NEW r \in SocketObject, r._id = fd,
         ~Open(sock[s]), file[fd] = NULL, sock' = [sock EXCEPT ![s] = r],
         file' \in [Fds -> File \cup {NULL}], file'[fd] # NULL,
         \A f \in Fds \ {fd} : file'[f] # NULL <=> file[f] # NULL,
         UNCHANGED <<interrupt_fds_, socket_map_, epoll_fd_, pc, events>>
  PROVE  SocketsInv'
<1>3. sock' \in [Socks -> SocketObject] /\ sock'[s]._id = fd
  BY SocketTypes
<1>4. \A t \in Socks \ {s} : sock'[t]._id = sock[t]._id
  BY SocketTypes
<1>5. \A f \in Fds : file'[f] # NULL <=> file[f] # NULL \/ f = fd
  OBVIOUS
<1>6. ~Open(sock[s]) /\ fd \in Fds /\ file[fd] = NULL
  OBVIOUS
<1>7. interrupt_fds_' \in Seq(Command) /\ socket_map_' \in [Fds -> SocketData \cup {NULL}]
  BY DEF SocketsInv, SocketsTypeOK
<1>8. IsolateStep(s, fd)
  BY <1>3, <1>4, <1>5, <1>6, <1>7 DEF IsolateStep
<1>. QED
  BY <1>8, IsolateStepInv

\* What happens to an open descriptor of the kernel.
LEMMA FileStep ==
  ASSUME SocketsInv, NEW s \in Socks, Open(sock[s]), NEW f \in File,
         file' = [file EXCEPT ![sock[s]._id] = f],
         UNCHANGED <<sock, interrupt_fds_, socket_map_, epoll_fd_, pc, events>>
  PROVE  SocketsInv'
<1>1. file' \in [Fds -> File \cup {NULL}]
  BY SocketTypes
<1>2. \A fd \in Fds : file'[fd] # NULL <=> file[fd] # NULL \/ fd = sock[s]._id
  BY SocketTypes
<1>3. sock' \in [Socks -> SocketObject] /\ \A t \in Socks : sock'[t]._id = sock[t]._id
  BY SocketTypes
<1>. QED
  BY <1>1, <1>2, <1>3, SilentStep

\* What happens to a socket that keeps its descriptor, if it has one.
LEMMA FieldStep ==
  ASSUME SocketsInv, NEW s \in Socks, NEW r \in SocketObject, r._id = sock[s]._id,
         sock' = [sock EXCEPT ![s] = r],
         UNCHANGED <<file, interrupt_fds_, socket_map_, epoll_fd_, pc, events>>
  PROVE  SocketsInv'
<1>1. file' \in [Fds -> File \cup {NULL}]
  BY SocketTypes
<1>2. \A fd \in Fds : file'[fd] # NULL <=> file[fd] # NULL \/ fd = sock[s]._id
  BY SocketTypes DEF Open
<1>3. sock' \in [Socks -> SocketObject] /\ sock'[s]._id = sock[s]._id
  BY SocketTypes
<1>4. \A t \in Socks \ {s} : sock'[t]._id = sock[t]._id
  BY SocketTypes
<1>. QED
  BY <1>1, <1>2, <1>3, <1>4, SilentStep

\* What the program does with a socket.
LEMMA UserInv ==
  ASSUME SocketsInv, NEW s \in Socks, User(s)
  PROVE  SocketsInv'
<1>. USE SocketTypes
<1>1. ASSUME NEW fd \in Fds, NEW kind \in Kinds, OpenFile(s, fd, kind) PROVE SocketsInv'
  <2>. DEFINE r == [NewSocket(kind, FALSE) EXCEPT !._id = fd]
  <2>1. r \in SocketObject /\ r._id = fd /\ NewFile(kind) \in File
    BY NewTypes, ZenonT(30) DEF NewSocket
  <2>2. file[fd] = NULL
    BY <1>1 DEF OpenFile, LowestFds, FreeFds
  <2>3. file' = [file EXCEPT ![fd] = NewFile(kind)] /\ sock' = [sock EXCEPT ![s] = r]
    BY <1>1 DEF OpenFile
  <2>. HIDE DEF r
  <2>4. /\ file' \in [Fds -> File \cup {NULL}] /\ file'[fd] # NULL
        /\ \A f \in Fds \ {fd} : file'[f] # NULL <=> file[f] # NULL
    BY <2>1, <2>3
  <2>. QED
    BY <1>1, <2>1, <2>2, <2>3, <2>4, OpenStep, ZenonT(30) DEF OpenFile, pollvars
<1>2. CASE Connect(s)
  <2>. DEFINE r == NewSocket("socket", TRUE)
  <2>1. r \in SocketObject /\ r._id = sock[s]._id /\ sock' = [sock EXCEPT ![s] = r]
    BY <1>2 DEF Connect, NewSocket, SocketObject, Open
  <2>. HIDE DEF r
  <2>. QED
    BY <1>2, <2>1, FieldStep, ZenonT(30) DEF Connect, ehvars, pollvars
<1>3. ASSUME NEW e \in {"in", "out", "close"}, SetHandler(s, e) PROVE SocketsInv'
  <2>1. sock[s]._handlerMask \cup {e} \in SUBSET {"in", "out", "close"}
    BY DEF SocketObject
  <2>2. Outcome(sock[s], SetHandlerMask(s, sock[s], sock[s]._handlerMask \cup {e}))
    BY <2>1, SetHandlerOutcome
  <2>. QED
    BY <1>3, <2>2, DoesHere DEF SetHandler, Elsewhere
<1>4. ASSUME NEW e \in {"in", "out", "close"}, ClearHandler(s, e) PROVE SocketsInv'
  <2>1. sock[s]._handlerMask \ {e} \in SUBSET {"in", "out", "close"}
    BY DEF SocketObject
  <2>2. Outcome(sock[s], SetHandlerMask(s, sock[s], sock[s]._handlerMask \ {e}))
    BY <2>1, SetHandlerOutcome
  <2>. QED
    BY <1>4, <2>2, DoesHere DEF ClearHandler, Elsewhere
<1>5. CASE HalfClose(s)
  BY <1>5, CloseWriteOutcome, DoesHere DEF HalfClose, Elsewhere
<1>6. CASE Read(s)
  <2>1. [file[sock[s]._id] EXCEPT !.data = FALSE] \in File
    BY <1>6, ZenonT(30) DEF Read, File
  <2>2. file' = [file EXCEPT ![sock[s]._id] = [file[sock[s]._id] EXCEPT !.data = FALSE]]
    BY <1>6 DEF Read
  <2>. QED
    BY <1>6, <2>1, <2>2, FileStep, ZenonT(30) DEF Read, svars, pollvars
<1>7. CASE Write(s)
  <2>1. [file[sock[s]._id] EXCEPT !.room = FALSE] \in File
    BY <1>7, ZenonT(30) DEF Write, File
  <2>2. file' = [file EXCEPT ![sock[s]._id] = [file[sock[s]._id] EXCEPT !.room = FALSE]]
    BY <1>7 DEF Write
  <2>. QED
    BY <1>7, <2>1, <2>2, FileStep, ZenonT(30) DEF Write, svars, pollvars
<1>. QED
  BY <1>1, <1>2, <1>3, <1>4, <1>5, <1>6, <1>7, ZenonT(30) DEF User

\* The answer to a lookup.
LEMMA LookupInv ==
  ASSUME SocketsInv, NEW s \in Socks, Lookup(s)
  PROVE  SocketsInv'
<1>. USE SocketTypes
<1>1. CASE LookupFails(s)
  <2>1. Forgotten \in SocketObject /\ Forgotten._id = -1
    BY DEF Forgotten, NewSocket, SocketObject, Open
  <2>2. sock[s]._id = -1
    BY <1>1 DEF LookupFails, SocketObject, Open
  <2>. QED
    BY <1>1, <2>1, <2>2, FieldStep, ZenonT(30) DEF LookupFails, ehvars, pollvars
<1>2. ASSUME NEW fd \in Fds, LookupDone(s, fd) PROVE SocketsInv'
  <2>. DEFINE r == [sock[s] EXCEPT !._id = fd, !.lookup = FALSE]
              f == [NewFile("socket") EXCEPT !.room = FALSE]
  <2>1. r \in SocketObject /\ r._id = fd /\ f \in File
    <3>1. r \in SocketObject /\ r._id = fd
      BY DEF SocketObject
    <3>. QED
      BY <3>1, NewTypes, ZenonT(30)
  <2>2. Outcome(r, ActivateHandlers(s, r))
    BY <2>1, ActivateOutcome
  <2>3. Does(s, ActivateHandlers(s, r)) /\ file' = [file EXCEPT ![fd] = f]
    BY <1>2 DEF LookupDone
  <2>4. ~Open(sock[s]) /\ file[fd] = NULL
    BY <1>2 DEF LookupDone, SocketObject, LowestFds, FreeFds
  <2>5. UNCHANGED <<epoll_fd_, pc, events>>
    BY <1>2 DEF LookupDone
  <2>. HIDE DEF r, f
  <2>6. /\ file' \in [Fds -> File \cup {NULL}]
        /\ \A g \in Fds : file'[g] # NULL <=> file[g] # NULL \/ g = r._id
    BY <2>1, <2>3
  <2>7. IsolateStep(s, r._id)
    BY <2>1, <2>2, <2>3, <2>4, <2>5, <2>6, DoesStep
  <2>. QED
    BY <2>7, IsolateStepInv
<1>. QED
  BY <1>1, <1>2 DEF Lookup

\* The steps of _multiplex.
LEMMA MultiplexInv ==
  ASSUME SocketsInv, NEW s \in Socks, Multiplex(s)
  PROVE  SocketsInv'
<1>. USE SocketTypes
<1>1. CASE Receive(s)
  <2>1. [sock[s] EXCEPT !._canActivateHandlers = FALSE] \in SocketObject
    BY DEF SocketObject, Open
  <2>2. [sock[s] EXCEPT !._canActivateHandlers = FALSE]._id = sock[s]._id
    BY DEF SocketObject
  <2>. QED
    BY <1>1, <2>1, <2>2, FieldStep, ZenonT(30) DEF Receive, pollvars
<1>2. CASE UNCHANGED <<ehvars, sock>>
  BY <1>2, FieldStep DEF ehvars, pollvars
<1>3. CASE InEvent(s)
  BY <1>2, <1>3 DEF InEvent
<1>4. CASE Does(s, CloseSocket(s, sock[s])) /\ Elsewhere
  BY <1>4, CloseOutcome, DoesHere DEF Elsewhere
<1>5. CASE ConnectionEvent(s)
  <2>1. ASSUME NEW c \in Socks, NEW fd \in LowestFds, ~Open(sock[c]),
               sock' = [sock EXCEPT ![c] = [NewSocket("socket", FALSE) EXCEPT !._id = fd]],
               file' = [file EXCEPT ![sock[s]._id].data = FALSE, ![fd] = NewFile("socket")],
               UNCHANGED <<interrupt_fds_, socket_map_, epoll_fd_, now, inbox, pollvars>>
        PROVE  SocketsInv'
    <3>. DEFINE r == [NewSocket("socket", FALSE) EXCEPT !._id = fd]
                f == NewFile("socket")
    <3>1. fd \in Fds /\ file[fd] = NULL
      BY DEF LowestFds, FreeFds
    <3>2. r \in SocketObject /\ r._id = fd /\ f \in File
      BY <3>1, NewTypes, ZenonT(30) DEF NewSocket
    <3>3. sock' = [sock EXCEPT ![c] = r]
      BY <2>1
    <3>. HIDE DEF r, f
    <3>4. /\ file' \in [Fds -> File \cup {NULL}] /\ file'[fd] # NULL
          /\ \A g \in Fds \ {fd} : file'[g] # NULL <=> file[g] # NULL
      <4>. DEFINE g0 == [file EXCEPT ![sock[s]._id].data = FALSE]
      <4>1. g0 \in [Fds -> File \cup {NULL}] /\ \A g \in Fds : g0[g] # NULL <=> file[g] # NULL
        <5>1. CASE sock[s]._id \in Fds
          <6>1. file[sock[s]._id] \in File
            BY <5>1 DEF Open
          <6>2. [file[sock[s]._id] EXCEPT !.data = FALSE] \in File
            BY <6>1, ZenonT(30) DEF File
          <6>. QED
            BY <5>1, <6>1, <6>2, ZenonT(30)
        <5>2. CASE sock[s]._id \notin Fds
          BY <5>2, ZenonT(30)
        <5>. QED
          BY <5>1, <5>2
      <4>2. file' = [g0 EXCEPT ![fd] = f]
        BY <2>1 DEF f
      <4>. HIDE DEF g0
      <4>. QED
        BY <3>1, <3>2, <4>1, <4>2
    <3>. QED
      BY <2>1, <3>1, <3>2, <3>3, <3>4, OpenStep, ZenonT(30) DEF pollvars
  <2>. QED
    BY <1>2, <1>4, <1>5, <2>1, ZenonT(30) DEF ConnectionEvent
<1>6. CASE OutEvent(s)
  <2>1. sock[s]._handlerMask \ {"out"} \in SUBSET {"in", "out", "close"}
    BY DEF SocketObject
  <2>2. Outcome(sock[s], SetHandlerMask(s, sock[s], sock[s]._handlerMask \ {"out"}))
    BY <2>1, SetHandlerOutcome
  <2>3. CASE Does(s, SetHandlerMask(s, sock[s], sock[s]._handlerMask \ {"out"})) /\ Elsewhere
    BY <2>2, <2>3, DoesHere DEF Elsewhere
  <2>. QED
    BY <1>2, <1>6, <2>3, ZenonT(30) DEF OutEvent
<1>7. CASE ErrorEvent(s)
  BY <1>4, <1>7, ZenonT(30) DEF ErrorEvent
<1>8. CASE CloseEvent(s)
  <2>. DEFINE r == IF IsSocket(sock[s]) /\ Open(sock[s])
                   THEN [sock[s] EXCEPT !._closedRead = TRUE] ELSE sock[s]
              result == IF r._closedWrite THEN CloseSocket(s, r) ELSE Quiet(r)
  <2>1. r \in SocketObject /\ r._id = sock[s]._id
    BY DEF SocketObject, Open
  <2>2. Does(s, result) /\ Elsewhere
    BY <1>8 DEF CloseEvent
  <2>. HIDE DEF r
  <2>3. Outcome(r, result)
    BY <2>1, CloseOutcome, QuietOutcome
  <2>. HIDE DEF result
  <2>. QED
    BY <2>1, <2>2, <2>3, DoesHere DEF Elsewhere
<1>9. CASE MultiplexEnd(s)
  <2>. DEFINE r == [sock[s] EXCEPT !._canActivateHandlers = TRUE]
  <2>1. r \in SocketObject /\ r._id = sock[s]._id
    BY ZenonT(30) DEF SocketObject, Open
  <2>2. Does(s, ActivateHandlers(s, r)) /\ Elsewhere
    BY <1>9 DEF MultiplexEnd
  <2>. HIDE DEF r
  <2>. QED
    BY <2>1, <2>2, ActivateOutcome, DoesHere DEF Elsewhere
<1>. QED
  BY <1>1, <1>3, <1>5, <1>6, <1>7, <1>8, <1>9, ZenonT(30) DEF Multiplex

\* The other end of a descriptor.
LEMMA PeerInv ==
  ASSUME SocketsInv, NEW fd \in Fds, PeerActs(fd)
  PROVE  SocketsInv'
<1>1. PICK s \in Socks : sock[s]._id = fd
  BY DEF PeerActs
<1>2. Open(sock[s]) /\ file[fd] \in File
  BY <1>1, SocketTypes DEF Open
<1>3. PICK f \in File : Becomes(fd, f)
  <2>1. \A g \in File : /\ [g EXCEPT !.data = TRUE] \in File
                        /\ [g EXCEPT !.eof = TRUE] \in File
                        /\ [g EXCEPT !.room = TRUE] \in File
                        /\ Broken(g) \in File
    BY ZenonT(30) DEF File, Broken
  <2>. QED
    BY <1>2, <2>1, ZenonT(30) DEF PeerActs
<1>. QED
  BY <1>1, <1>2, <1>3, FileStep, ZenonT(30) DEF Becomes, svars, pollvars

-----------------------------------------------------------------------------
(* The event handler.                                                      *)

\* epoll_wait reports registered descriptors only, each of them once.
LEMMA EpollReturnsInv ==
  ASSUME SocketsInv, EpollReturns, UNCHANGED svars
  PROVE  SocketsInv'
<1>1. UNCHANGED <<interrupt_fds_, socket_map_, epoll_fd_, file, sock>>
  BY DEF EpollReturns, svars
<1>2. SocketsTypeOK' /\ OwnerInv' /\ CommandInv' /\ EpollInv'
  BY <1>1, ZenonT(30) DEF SocketsInv, SocketsTypeOK, OwnerInv, CommandInv, EpollInv, ClosePending,
              MessagesFor, Tracked
<1>3. \A fd \in ReadyFds : fd \in Fds /\ Tracked(fd)
  BY DEF ReadyFds, Reported, SocketsInv, EpollInv
<1>4. events' = {[fd |-> fd, events |-> Reported(fd)] : fd \in ReadyFds}
  BY DEF EpollReturns
<1>5. ReadyFds # {} => pc' = "events"
  BY DEF EpollReturns
<1>6. EventInv'
  BY <1>1, <1>3, <1>4, <1>5 DEF EventInv, Tracked
<1>. QED
  BY <1>2, <1>6 DEF SocketsInv

\* The descriptor of an event leaves epoll and the SocketData remembers it.
LEMMA HandleEventInv ==
  ASSUME SocketsInv, NEW e \in events, HandleEvent(e), UNCHANGED svars
  PROVE  SocketsInv'
<1>. DEFINE fd == e.fd
            sd == socket_map_[fd]
            marked == [sd EXCEPT !.flags = @ \cup MarkedClosed(fd, sd, e.events)]
            off == [marked EXCEPT !.tracked = FALSE]
<1>1. UNCHANGED <<interrupt_fds_, file, sock>>
  BY DEF HandleEvent, svars
<1>2. fd \in Fds /\ Tracked(fd) /\ sd \in SocketData /\ sd # NULL /\ sd.tracked
  BY DEF SocketsInv, SocketsTypeOK, EventInv, Tracked
<1>3. MarkedClosed(fd, sd, e.events) \subseteq {"kClosedRead", "kClosedWrite"}
  BY DEF MarkedClosed
<1>4. /\ marked \in SocketData /\ marked.tracked /\ marked.port = sd.port
      /\ off \in SocketData /\ ~off.tracked
  BY <1>2, <1>3, ZenonT(30) DEF SocketData
<1>5. \/ socket_map_' = [socket_map_ EXCEPT ![fd] = marked] /\ epoll_fd_' = epoll_fd_
      \/ /\ socket_map_' = [socket_map_ EXCEPT ![fd] = off]
         /\ epoll_fd_' = [epoll_fd_ EXCEPT ![fd] = NULL]
  BY <1>2 DEF HandleEvent, RemoveFromEpollInstance
<1>6. events' = events \ {e} /\ pc' = (IF events = {e} THEN "interrupt" ELSE "events")
  BY DEF HandleEvent
<1>7. NULL \notin SocketData
  BY SocketsAssumption
<1>. HIDE DEF fd, sd, marked, off
<1>8. SocketsTypeOK'
  BY <1>1, <1>2, <1>4, <1>5 DEF SocketsInv, SocketsTypeOK
<1>9. OwnerInv' /\ CommandInv'
  BY <1>1 DEF SocketsInv, OwnerInv, CommandInv, ClosePending, MessagesFor
<1>10. \A g \in Fds \ {fd} : socket_map_'[g] = socket_map_[g] /\ epoll_fd_'[g] = epoll_fd_[g]
  BY <1>2, <1>5 DEF SocketsInv, SocketsTypeOK
<1>11. \/ socket_map_'[fd] = marked /\ epoll_fd_'[fd] = epoll_fd_[fd]
       \/ socket_map_'[fd] = off /\ epoll_fd_'[fd] = NULL
  BY <1>2, <1>5 DEF SocketsInv, SocketsTypeOK
<1>12. EpollInv'
  <2>1. ASSUME NEW g \in Fds, g # fd
        PROVE  /\ Tracked(g)' <=> epoll_fd_'[g] # NULL
               /\ Tracked(g)' => file'[g] # NULL /\ socket_map_'[g].port # NoPort
    BY <1>1, <1>10, <2>1 DEF SocketsInv, EpollInv, Tracked
  <2>2. /\ epoll_fd_[fd] # NULL /\ file[fd] # NULL /\ sd.port # NoPort
    BY <1>2 DEF SocketsInv, EpollInv, sd
  <2>3. /\ Tracked(fd)' <=> epoll_fd_'[fd] # NULL
        /\ Tracked(fd)' => file'[fd] # NULL /\ socket_map_'[fd].port # NoPort
    BY <1>1, <1>4, <1>7, <1>11, <2>2 DEF Tracked
  <2>. QED
    BY <2>1, <2>3 DEF EpollInv
<1>13. EventInv'
  <2>1. \A f \in events' : f \in events /\ f.fd # fd
    BY <1>6 DEF SocketsInv, EventInv, fd
  <2>2. events' # {} => pc' = "events"
    BY <1>6
  <2>. QED
    BY <1>10, <2>1, <2>2 DEF SocketsInv, EventInv, Tracked
<1>. QED
  BY <1>8, <1>9, <1>12, <1>13 DEF SocketsInv

\* Reading a command: its descriptor is closed exactly if the command says so.
LEMMA ReadStep ==
  ASSUME SocketsInv, GetInterruptMessage, UNCHANGED sock,
         file' \in [Fds -> File \cup {NULL}],
         socket_map_' \in [Fds -> SocketData \cup {NULL}],
         epoll_fd_' \in [Fds -> (SUBSET {"EPOLLIN", "EPOLLOUT"}) \cup {NULL}],
         \A fd \in Fds : file'[fd] = NULL <=> file[fd] = NULL \/ (fd = msg.id /\ msg.data = kClose),
         EpollInv'
  PROVE  SocketsInv'
<1>. PICK p, q, n : p = interrupt_fds_' /\ q = interrupt_fds_ /\ n = Len(q)
  BY ZenonT(30)
<1>1. q \in Seq(Command) /\ q # <<>> /\ p = Tail(q) /\ n \in Nat /\ DOMAIN q = 1..n
  BY DEF GetInterruptMessage, SocketsInv, SocketsTypeOK
<1>2. n >= 1 /\ p \in Seq(Command) /\ Len(p) = n - 1 /\ DOMAIN p = 1..(n - 1)
  BY <1>1
<1>3. \A i \in 1..(n - 1) : i + 1 \in 1..n /\ p[i] = q[i + 1]
  BY <1>1
<1>4. \A i \in 2..n : i - 1 \in 1..(n - 1) /\ p[i - 1] = q[i]
  BY <1>1, <1>2, <1>3
<1>5. msg = q[1] /\ 1 \in 1..n /\ \A i \in 1..n : i = 1 \/ i \in 2..n
  BY <1>1, <1>2 DEF msg
<1>6. \A i \in 1..n : q[i].id \in Fds
  <2>1. \A i \in 1..n : q[i] \in Command
    BY <1>1
  <2>. QED
    BY <2>1 DEF Command
<1>7. \A i \in 1..n : /\ file[q[i].id] # NULL
                      /\ q[i].data = kClose => \A j \in 1..n : q[j].id = q[i].id => j <= i
  BY <1>1 DEF SocketsInv, CommandInv
<1>8. \A i \in 1..(n - 1) : msg.data = kClose => p[i].id # msg.id
  <2> SUFFICES ASSUME NEW i \in 1..(n - 1), q[1].data = kClose, q[i + 1].id = q[1].id
               PROVE  FALSE
    BY <1>3, <1>5
  <2>1. i + 1 <= 1
    BY <1>3, <1>5, <1>7
  <2>. QED
    BY <1>2, <2>1
<1>9. SocketsTypeOK'
  BY <1>2 DEF SocketsInv, SocketsTypeOK
<1>10. CommandInv'
  <2> SUFFICES ASSUME NEW i \in 1..(n - 1)
               PROVE  /\ file'[p[i].id] # NULL
                      /\ p[i].data = kClose =>
                           \A j \in 1..(n - 1) : p[j].id = p[i].id => j <= i
    BY <1>2 DEF CommandInv
  <2>1. file'[p[i].id] # NULL
    BY <1>3, <1>6, <1>7, <1>8
  <2>2. ASSUME p[i].data = kClose, NEW j \in 1..(n - 1), p[j].id = p[i].id PROVE j <= i
    <3>1. j + 1 <= i + 1
      BY <1>3, <1>7, <2>2
    <3>. QED
      BY <1>2, <3>1
  <2>. QED
    BY <2>1, <2>2
<1>11. \A fd \in Fds : ClosePending(fd) <=> ClosePending(fd)' \/ (fd = msg.id /\ msg.data = kClose)
  <2>1. \A fd \in Fds : ClosePending(fd) <=> \E i \in 1..n : q[i].id = fd /\ q[i].data = kClose
    BY <1>1 DEF ClosePending, MessagesFor, kClose
  <2>2. \A fd \in Fds : ClosePending(fd)' <=> \E i \in 1..(n - 1) : p[i].id = fd /\ p[i].data = kClose
    BY <1>2 DEF ClosePending, MessagesFor, kClose
  <2> SUFFICES ASSUME NEW fd \in Fds
               PROVE  (\E i \in 1..n : q[i].id = fd /\ q[i].data = kClose)
                      <=> \/ \E i \in 1..(n - 1) : p[i].id = fd /\ p[i].data = kClose
                          \/ fd = q[1].id /\ q[1].data = kClose
    BY <1>5, <2>1, <2>2
  <2>3. ASSUME NEW i \in 1..n, q[i].id = fd, q[i].data = kClose
        PROVE  \/ \E k \in 1..(n - 1) : p[k].id = fd /\ p[k].data = kClose
               \/ fd = q[1].id /\ q[1].data = kClose
    BY <1>4, <1>5, <2>3
  <2>4. ASSUME NEW i \in 1..(n - 1), p[i].id = fd, p[i].data = kClose
        PROVE  \E k \in 1..n : q[k].id = fd /\ q[k].data = kClose
    BY <1>3, <2>4
  <2>. QED
    BY <1>5, <2>3, <2>4
<1>12. OwnerInv'
  <2>1. \A s \in Socks : sock'[s] = sock[s] /\ (Open(sock[s]) => sock[s]._id \in Fds)
    BY SocketTypes
  <2>2. ASSUME NEW s \in Socks, Open(sock'[s])
        PROVE  \E fd \in Fds : sock'[s]._id = fd /\ file'[fd] # NULL /\ ~ClosePending(fd)'
    BY <1>11, <2>1, <2>2 DEF SocketsInv, OwnerInv
  <2>3. ASSUME NEW fd \in Fds, file'[fd] # NULL, ~ClosePending(fd)'
        PROVE  \E s \in Socks : sock'[s]._id = fd
    BY <1>11, <2>1, <2>3 DEF SocketsInv, OwnerInv
  <2>4. \A s, t \in Socks : Open(sock'[s]) /\ sock'[s]._id = sock'[t]._id => s = t
    BY <2>1 DEF SocketsInv, OwnerInv
  <2>5. ASSUME NEW s \in Socks, Open(sock'[s])
        PROVE  file'[sock'[s]._id] # NULL /\ ~ClosePending(sock[s]._id)'
    BY <2>2, <2>5 DEF ClosePending, MessagesFor
  <2>. QED
    BY <2>3, <2>4, <2>5, ZenonT(30) DEF OwnerInv
<1>13. EventInv'
  BY DEF GetInterruptMessage, SocketsInv, EventInv
<1>. QED
  BY <1>9, <1>10, <1>12, <1>13 DEF SocketsInv

\* The command that is read.
LEMMA Msg ==
  ASSUME SocketsInv, GetInterruptMessage
  PROVE  /\ msg \in Command /\ msg.id \in Fds /\ file[msg.id] \in File
         /\ GetSocketData(msg.id) \in SocketData
         /\ GetSocketData(msg.id).tracked <=> epoll_fd_[msg.id] # NULL
         /\ GetSocketData(msg.id).tracked => GetSocketData(msg.id).port # NoPort
<1>1. 1 \in DOMAIN interrupt_fds_ /\ msg = interrupt_fds_[1] /\ msg \in Command
  BY DEF GetInterruptMessage, msg, SocketsInv, SocketsTypeOK
<1>2. msg.id \in Fds /\ file[msg.id] \in File
  BY <1>1 DEF Command, SocketsInv, SocketsTypeOK, CommandInv
<1>3. NewSocketData \in SocketData /\ ~NewSocketData.tracked
  BY DEF NewSocketData, SocketData, Masks
<1>. QED
  BY <1>1, <1>2, <1>3 DEF GetSocketData, SocketsInv, SocketsTypeOK, EpollInv, Tracked

\* A command that leaves its descriptor open and updates the registration.
LEMMA UpdateStep ==
  ASSUME SocketsInv, GetInterruptMessage, UNCHANGED sock, msg.data # kClose,
         NEW sd \in SocketData, sd.tracked = GetSocketData(msg.id).tracked,
         sd.tracked => sd.port # NoPort, UpdateEpollInstance(msg.id, sd),
         file' \in [Fds -> File \cup {NULL}],
         \A fd \in Fds : file'[fd] = NULL <=> file[fd] = NULL
  PROVE  SocketsInv'
<1>. PICK fd : fd = msg.id
  OBVIOUS
<1>. DEFINE on == [sd EXCEPT !.tracked = TRUE]
<1>1. /\ fd \in Fds /\ file[fd] # NULL /\ NULL \notin SocketData
      /\ sd.tracked <=> epoll_fd_[fd] # NULL
  BY Msg, SocketsAssumption
<1>2. on \in SocketData /\ on.tracked /\ on.port = sd.port
  BY ZenonT(30) DEF SocketData
<1>3. RequestedEvents(sd) \in SUBSET {"EPOLLIN", "EPOLLOUT"} /\ RequestedEvents(sd) # NULL
  BY SocketsAssumption DEF RequestedEvents
<1>4. \/ /\ sd.port # NoPort
         /\ socket_map_' = [socket_map_ EXCEPT ![fd] = on]
         /\ epoll_fd_' = [epoll_fd_ EXCEPT ![fd] = RequestedEvents(sd)]
      \/ /\ socket_map_' = [socket_map_ EXCEPT ![fd] = sd]
         /\ epoll_fd_' = epoll_fd_
  BY DEF UpdateEpollInstance
<1>. HIDE DEF on
<1>5. /\ socket_map_' \in [Fds -> SocketData \cup {NULL}]
      /\ epoll_fd_' \in [Fds -> (SUBSET {"EPOLLIN", "EPOLLOUT"}) \cup {NULL}]
  <2>1. /\ socket_map_ \in [Fds -> SocketData \cup {NULL}]
        /\ epoll_fd_ \in [Fds -> (SUBSET {"EPOLLIN", "EPOLLOUT"}) \cup {NULL}]
    BY ZenonT(30) DEF SocketsInv, SocketsTypeOK
  <2>. QED
    BY <1>1, <1>2, <1>3, <1>4, <2>1
<1>6. \A g \in Fds \ {fd} : socket_map_'[g] = socket_map_[g] /\ epoll_fd_'[g] = epoll_fd_[g]
  BY <1>1, <1>4 DEF SocketsInv, SocketsTypeOK
<1>7. \/ /\ sd.port # NoPort
         /\ socket_map_'[fd] = on
         /\ epoll_fd_'[fd] = RequestedEvents(sd)
      \/ socket_map_'[fd] = sd /\ epoll_fd_'[fd] = epoll_fd_[fd]
  BY <1>1, <1>4 DEF SocketsInv, SocketsTypeOK
<1>8. EpollInv'
  <2>1. ASSUME NEW g \in Fds, g # fd
        PROVE  /\ Tracked(g)' <=> epoll_fd_'[g] # NULL
               /\ Tracked(g)' => file'[g] # NULL /\ socket_map_'[g].port # NoPort
    BY <1>6, <2>1 DEF SocketsInv, EpollInv, Tracked
  <2>2. /\ Tracked(fd)' <=> epoll_fd_'[fd] # NULL
        /\ Tracked(fd)' => file'[fd] # NULL /\ socket_map_'[fd].port # NoPort
    BY <1>1, <1>2, <1>3, <1>7 DEF Tracked
  <2>. QED
    BY <2>1, <2>2 DEF EpollInv
<1>. QED
  BY <1>5, <1>8, ReadStep

\* The messages of the pipe.
LEMMA ShutdownWriteInv ==
  ASSUME SocketsInv, ShutdownWriteMessage, UNCHANGED sock
  PROVE  SocketsInv'
<1>. DEFINE sd == [GetSocketData(msg.id) EXCEPT !.flags = @ \cup {"kClosedWrite"}]
            f == [file[msg.id] EXCEPT !.shut = file[msg.id].kind = "socket"]
<1>1. GetInterruptMessage /\ UpdateEpollInstance(msg.id, sd)
  BY DEF ShutdownWriteMessage
<1>2. msg.data # kClose
  BY DEF ShutdownWriteMessage, kClose
<1>3. /\ sd \in SocketData /\ sd.tracked = GetSocketData(msg.id).tracked
      /\ sd.port = GetSocketData(msg.id).port
  BY <1>1, Msg DEF SocketData
<1>4. f \in File /\ file' = [file EXCEPT ![msg.id] = f]
  BY <1>1, Msg, ZenonT(30) DEF File, ShutdownWriteMessage
<1>. HIDE DEF sd, f
<1>5. /\ file' \in [Fds -> File \cup {NULL}]
      /\ \A fd \in Fds : file'[fd] = NULL <=> file[fd] = NULL
  BY <1>1, <1>4, Msg, SocketsAssumption DEF SocketsInv, SocketsTypeOK
<1>6. sd.tracked => sd.port # NoPort
  BY <1>1, <1>3, Msg
<1>. QED
  BY <1>1, <1>2, <1>3, <1>5, <1>6, UpdateStep

LEMMA SetEventsInv ==
  ASSUME SocketsInv, SetEventsMessage, UNCHANGED sock
  PROVE  SocketsInv'
<1>. DEFINE sd == [GetSocketData(msg.id) EXCEPT !.port = msg.port, !.mask = msg.data]
<1>1. GetInterruptMessage /\ UpdateEpollInstance(msg.id, sd)
  BY DEF SetEventsMessage
<1>2. msg.data # kClose /\ msg.data \in Masks /\ msg.port \in Socks \cup {ClosedPort}
  BY <1>1, Msg DEF SetEventsMessage, Command, kClose
<1>3. sd \in SocketData /\ sd.tracked = GetSocketData(msg.id).tracked /\ sd.port = msg.port
  BY <1>1, <1>2, Msg, ZenonT(30) DEF SocketData
<1>4. sd.port # NoPort
  BY <1>2, <1>3, SocketsAssumption, EventHandlerAssumption
<1>. HIDE DEF sd
<1>5. /\ file' \in [Fds -> File \cup {NULL}]
      /\ \A fd \in Fds : file'[fd] = NULL <=> file[fd] = NULL
  BY DEF SetEventsMessage, SocketsInv, SocketsTypeOK
<1>. QED
  BY <1>1, <1>2, <1>3, <1>4, <1>5, UpdateStep

\* The descriptor leaves epoll if it is registered, and is closed.
LEMMA CloseInv ==
  ASSUME SocketsInv, CloseMessage, UNCHANGED sock
  PROVE  SocketsInv'
<1>. PICK fd : fd = msg.id
  OBVIOUS
<1>1. GetInterruptMessage /\ msg.data = kClose
  BY DEF CloseMessage, kClose
<1>2. /\ fd \in Fds
      /\ GetSocketData(fd).tracked <=> epoll_fd_[fd] # NULL
  BY <1>1, Msg
<1>3. /\ file' = [file EXCEPT ![fd] = NULL]
      /\ socket_map_' = [socket_map_ EXCEPT ![fd] = NULL]
      /\ epoll_fd_' = [epoll_fd_ EXCEPT ![fd] = NULL] \/ (epoll_fd_[fd] = NULL /\ epoll_fd_' = epoll_fd_)
  BY <1>2 DEF CloseMessage, RemoveFromEpollInstance
<1>4. /\ file' \in [Fds -> File \cup {NULL}]
      /\ socket_map_' \in [Fds -> SocketData \cup {NULL}]
      /\ epoll_fd_' \in [Fds -> (SUBSET {"EPOLLIN", "EPOLLOUT"}) \cup {NULL}]
  BY <1>2, <1>3 DEF SocketsInv, SocketsTypeOK
<1>5. /\ file'[fd] = NULL /\ socket_map_'[fd] = NULL /\ epoll_fd_'[fd] = NULL
      /\ \A g \in Fds \ {fd} : /\ file'[g] = file[g] /\ socket_map_'[g] = socket_map_[g]
                               /\ epoll_fd_'[g] = epoll_fd_[g]
  BY <1>2, <1>3 DEF SocketsInv, SocketsTypeOK
<1>6. EpollInv'
  <2>1. \A g \in Fds : g # fd => (Tracked(g)' <=> Tracked(g))
    BY <1>5 DEF Tracked
  <2>2. ~Tracked(fd)'
    BY <1>5 DEF Tracked
  <2>. QED
    BY <1>5, <2>1, <2>2 DEF SocketsInv, EpollInv
<1>7. \A g \in Fds : file'[g] = NULL <=> file[g] = NULL \/ (g = msg.id /\ msg.data = kClose)
  BY <1>1, <1>5
<1>. QED
  BY <1>1, <1>4, <1>6, <1>7, ReadStep

\* The event handler's steps.
LEMMA PollInv ==
  ASSUME SocketsInv, Poll, UNCHANGED svars
  PROVE  SocketsInv'
<1>. UNCHANGED sock
  BY DEF svars
<1>1. CASE EpollReturns
  BY <1>1, EpollReturnsInv
<1>2. ASSUME NEW e \in events, HandleEvent(e) PROVE SocketsInv'
  BY <1>2, HandleEventInv
<1>3. CASE TimerMessage
  <2>1. GetInterruptMessage /\ msg.id = -1
    BY <1>3 DEF TimerMessage, kTimerId
  <2>. QED
    BY <2>1, Msg, EventHandlerAssumption
<1>4. CASE EpollWait
  <2>1. UNCHANGED <<interrupt_fds_, socket_map_, epoll_fd_, file, sock, events>>
    BY <1>4 DEF EpollWait
  <2>2. events = {}
    BY <1>4 DEF EpollWait, SocketsInv, EventInv
  <2>3. SocketsTypeOK' /\ OwnerInv' /\ CommandInv' /\ EpollInv'
    BY <2>1, ZenonT(30) DEF SocketsInv, SocketsTypeOK, OwnerInv, CommandInv, EpollInv, ClosePending,
                MessagesFor, Tracked
  <2>4. EventInv'
    BY <2>1, <2>2 DEF EventInv
  <2>. QED
    BY <2>3, <2>4 DEF SocketsInv
<1>. QED
  BY <1>1, <1>2, <1>3, <1>4, ShutdownWriteInv, SetEventsInv, CloseInv DEF Poll

-----------------------------------------------------------------------------
\* At the start no socket has a descriptor.
LEMMA SocketsInitInv == Init => SocketsInv
<1>. SUFFICES ASSUME Init PROVE SocketsInv
  OBVIOUS
<1>1. Forgotten \in SocketObject /\ Forgotten._id = -1
  BY DEF Forgotten, NewSocket, SocketObject, Open
<1>2. SocketsTypeOK
  BY <1>1 DEF Init, EHInit, SocketsTypeOK
<1>3. \A s \in Socks : ~Open(sock[s])
  BY <1>1 DEF Init, Open
<1>4. OwnerInv
  BY <1>3 DEF Init, EHInit, OwnerInv
<1>5. CommandInv /\ EventInv /\ EpollInv
  BY DEF Init, EHInit, CommandInv, EventInv, EpollInv, Tracked
<1>. QED
  BY <1>2, <1>4, <1>5 DEF SocketsInv

LEMMA SocketsNextInv == SocketsInv /\ [Next]_vars => SocketsInv'
<1>. SUFFICES ASSUME SocketsInv, [Next]_vars PROVE SocketsInv'
  OBVIOUS
<1>1. CASE UNCHANGED <<interrupt_fds_, socket_map_, epoll_fd_, file, sock, events, pc>>
  BY <1>1, ZenonT(30) DEF SocketsInv, SocketsTypeOK, OwnerInv, CommandInv, EventInv, EpollInv, ClosePending,
              MessagesFor, Tracked
<1>2. ASSUME Poll, UNCHANGED svars PROVE SocketsInv'
  BY <1>2, PollInv
<1>3. ASSUME NEW s \in Users, User(s) \/ Lookup(s) PROVE SocketsInv'
  BY <1>3, UserInv, LookupInv, SocketsAssumption
<1>4. ASSUME NEW s \in Socks, Close(s) PROVE SocketsInv'
  BY <1>4, SocketTypes, CloseOutcome, DoesHere DEF Close, Elsewhere
<1>5. ASSUME NEW s \in Socks, Multiplex(s) PROVE SocketsInv'
  BY <1>5, MultiplexInv
<1>6. CASE HandlerReturns
  BY <1>1, <1>6 DEF HandlerReturns, ehvars, pollvars
<1>7. ASSUME NEW fd \in Fds, PeerActs(fd) PROVE SocketsInv'
  BY <1>7, PeerInv
<1>8. CASE UNCHANGED vars
  BY <1>1, <1>8 DEF vars, ehvars, pollvars, svars
<1>. QED
  BY <1>2, <1>3, <1>4, <1>5, <1>6, <1>7, <1>8, ZenonT(30) DEF Next

\* The invariant holds for any program.
LEMMA SocketsInvariant == Spec => []SocketsInv
<1>. QED
  BY SocketsInitInv, SocketsNextInv, PTL DEF Spec

\* The event handler and the kernel agree on what is registered, for any use of
\* the sockets: epoll_ctl never fails, a registered descriptor is open and has a
\* port, and no event is left for a SocketData that was deleted.
THEOREM EpollStaysInSync == Spec => []EpollInSync
<1>1. SocketsInv => EpollInSync
  BY DEF SocketsInv, EventInv, EpollInv, Tracked, EpollInSync
<1>. QED
  BY <1>1, SocketsInvariant, PTL

\* Descriptor numbers are used again, and still every open descriptor has
\* exactly one owner, commands are only read for open descriptors, and nothing
\* is sent after the command to close.
THEOREM DescriptorsHaveOwners == Spec => []DescriptorsOwned
<1>1. SocketsInv => DescriptorsOwned
  <2> SUFFICES ASSUME SocketsInv, NEW fd \in Fds
               PROVE  /\ file[fd] # NULL /\ ~ClosePending(fd)
                           <=> \E s \in Socks : sock[s]._id = fd
                      /\ \A s, t \in Socks : sock[s]._id = fd /\ sock[t]._id = fd => s = t
                      /\ \A i \in MessagesFor(fd) :
                           /\ file[fd] # NULL
                           /\ interrupt_fds_[i].data = {"kCloseCommand"} =>
                                \A j \in MessagesFor(fd) : j <= i
    BY DEF DescriptorsOwned
  <2>1. \A s \in Socks : sock[s]._id = fd => Open(sock[s])
    BY EventHandlerAssumption DEF Open
  <2>2. \A s, t \in Socks : sock[s]._id = fd /\ sock[t]._id = fd => s = t
    BY <2>1 DEF SocketsInv, OwnerInv
  <2>3. file[fd] # NULL /\ ~ClosePending(fd) <=> \E s \in Socks : sock[s]._id = fd
    BY <2>1 DEF SocketsInv, OwnerInv
  <2>4. \A i \in MessagesFor(fd) :
          /\ file[fd] # NULL
          /\ interrupt_fds_[i].data = {"kCloseCommand"} => \A j \in MessagesFor(fd) : j <= i
    BY DEF SocketsInv, CommandInv, MessagesFor, kClose
  <2>. QED
    BY <2>2, <2>3, <2>4
<1>. QED
  BY <1>1, SocketsInvariant, PTL

-----------------------------------------------------------------------------
(* The end of the input of a stream.                                       *)

\* What is on its way for a descriptor and for a socket.
CommandsFor(fd) == {c \in Range(interrupt_fds_) : c.id = fd}
EventsFor(s) == {m \in Range(inbox) : m.port = s}

\* Events that tell a socket that its input has ended.
Ending == {"close", "error"}
EndsNow(s) == current = s /\ todo \cap Ending # {}

Event == [port : Socks, message : SUBSET {"in", "out", "error", "close"}]

\* A port that is open is known to the event handler only for the descriptor of
\* its socket, and events wait for open sockets only.
PortInv ==
  /\ \A c \in Range(interrupt_fds_) : c.port \in Socks => sock[c.port]._id = c.id
  /\ \A fd \in Fds :
       /\ file[fd] = NULL => socket_map_[fd] = NULL
       /\ socket_map_[fd] # NULL /\ socket_map_[fd].port \in Socks =>
            sock[socket_map_[fd].port]._id = fd
  /\ inbox \in Seq(Event)
  /\ \A m \in Range(inbox) : Open(sock[m.port])

\* The handlers of the socket that _multiplex works for are not activated before
\* it has finished, and that socket is open until the handlers have run.
CurrentInv ==
  /\ current \in Socks \cup {NULL} /\ todo \subseteq {"in", "out", "error", "close"}
  /\ current = NULL => running = NULL /\ todo = {}
  /\ "in" \in todo => running = NULL /\ Open(sock[current])
  /\ \A s \in Socks : /\ ~sock[s]._canActivateHandlers <=> current = s
                      /\ current = s => ~sock[s].lookup

\* A socket that is read from.
Reads(r) == r.kind \notin {"listen", "out"}

\* What holds of a socket s with fields r that is read through a stream, given
\* the commands for its descriptor, its SocketData, the events that wait for
\* it, whether _multiplex works for it and whether that will tell it of the
\* end.  Its port stays open from the first command on; before its close
\* handler is set the descriptor is not registered; and the end of the input
\* that the event handler has seen is still to be told.
StreamOK(s, r, commands, sd, evs, cur, ends) ==
  /\ Reads(r) /\ r._handlerMask # {} => "close" \in r._handlerMask
  /\ Reads(r) /\ Open(r) =>
       /\ ~r._handler => r._handlerMask = {} /\ commands = {} /\ sd = NULL
       /\ r._handlerMask = {} =>
            /\ ~cur /\ evs = {}
            /\ \A c \in commands : c.data \notin Masks
            /\ sd # NULL => sd.port = NoPort /\ "kClosedRead" \notin sd.flags
       /\ \A c \in commands : c.port = s
       /\ sd # NULL => sd.port \in {s, NoPort}
       /\ sd # NULL /\ "kClosedRead" \in sd.flags /\ ~r._closedRead =>
            ends \/ \E m \in evs : m.message \cap Ending # {}

StreamAt(s) ==
  StreamOK(s, sock[s], CommandsFor(sock[s]._id), socket_map_[sock[s]._id], EventsFor(s),
           current = s, EndsNow(s))

\* The end of a pipe to a process is not read from.
OutputsEnded == \A s \in Socks : sock[s].kind = "out" => sock[s]._closedRead

StreamsInv ==
  /\ PortInv /\ CurrentInv /\ OutputsEnded
  /\ \A s \in Socks : StreamAt(s)
  /\ timeout_ = kInfinityTimeout

-----------------------------------------------------------------------------
\* Nothing changes for t.
Same(t) ==
  /\ sock'[t] = sock[t]
  /\ current' = t <=> current = t
  /\ EndsNow(t)' <=> EndsNow(t)
  /\ EventsFor(t)' = EventsFor(t)
  /\ \A fd \in Fds : fd = sock[t]._id =>
       CommandsFor(fd)' = CommandsFor(fd) /\ socket_map_'[fd] = socket_map_[fd]

\* What is said of a socket is still true when nothing changes for it.
LEMMA SameStream ==
  ASSUME SocketsInv, NEW t \in Socks, Same(t), StreamAt(t)
  PROVE  StreamAt(t)'
<1>1. CASE ~Open(sock[t])
  BY <1>1 DEF Same, StreamAt, StreamOK
<1>2. CASE Open(sock[t])
  <2>. PICK fd \in Fds : fd = sock[t]._id
    BY <1>2, SocketTypes
  <2>1. fd = sock'[t]._id /\ sock'[t] = sock[t]
    BY DEF Same
  <2>2. StreamOK(t, sock[t], CommandsFor(fd), socket_map_[fd], EventsFor(t), current = t, EndsNow(t))
    BY DEF StreamAt
  <2>3. /\ CommandsFor(fd)' = CommandsFor(fd) /\ socket_map_'[fd] = socket_map_[fd]
        /\ EventsFor(t)' = EventsFor(t) /\ (current' = t) = (current = t) /\ EndsNow(t)' = EndsNow(t)
    BY DEF Same, EndsNow
  <2>4. StreamOK(t, sock'[t], CommandsFor(fd)', socket_map_'[fd], EventsFor(t)', current' = t, EndsNow(t)')
    BY <2>1, <2>2, <2>3
  <2>5. CommandsFor(sock[t]._id)' = CommandsFor(fd)' /\ socket_map_'[sock'[t]._id] = socket_map_'[fd]
    BY <2>1 DEF CommandsFor
  <2>. QED
    BY <2>4, <2>5 DEF StreamAt
<1>. QED
  BY <1>1, <1>2

\* The commands, the SocketData and the events after ports have been closed.
Renamed(x, closed) == [x EXCEPT !.port = Retire(@, closed)]

LEMMA SendView ==
  ASSUME SocketsInv, PortInv, NEW msgs \in Seq(Command), NEW closed, SendData(msgs, closed)
  PROVE  /\ Range(interrupt_fds_') =
              {Renamed(c, closed) : c \in Range(interrupt_fds_) \cup Range(msgs)}
         /\ \A fd \in Fds : socket_map_'[fd] = IF socket_map_[fd] = NULL THEN NULL
                                               ELSE Renamed(socket_map_[fd], closed)
         /\ inbox' \in Seq(Event)
         /\ Range(inbox') = {m \in Range(inbox) : m.port \notin closed}
<1>. DEFINE q == interrupt_fds_
            sent == q \o msgs
<1>1. q \in Seq(Command) /\ inbox \in Seq(Event)
  BY DEF SocketsInv, SocketsTypeOK, PortInv
<1>2. Range(sent) = Range(q) \cup Range(msgs)
  <2>1. /\ sent \in Seq(Command) /\ Len(sent) = Len(q) + Len(msgs) /\ Len(q) \in Nat /\ Len(msgs) \in Nat
        /\ DOMAIN sent = 1..Len(sent) /\ DOMAIN q = 1..Len(q) /\ DOMAIN msgs = 1..Len(msgs)
    BY <1>1
  <2>2. /\ \A i \in 1..Len(q) : sent[i] = q[i]
        /\ \A i \in 1..Len(msgs) : sent[Len(q) + i] = msgs[i]
    BY <1>1
  <2>. HIDE DEF q, sent
  <2>3. /\ \A i \in 1..Len(q) : i \in 1..Len(sent)
        /\ \A i \in 1..Len(msgs) : Len(q) + i \in 1..Len(sent)
        /\ \A i \in 1..Len(sent) : \/ i \in 1..Len(q)
                                   \/ i - Len(q) \in 1..Len(msgs) /\ Len(q) + (i - Len(q)) = i
    BY <2>1
  <2>4. ASSUME NEW x \in Range(sent) PROVE x \in Range(q) \cup Range(msgs)
    <3>1. PICK i \in 1..Len(sent) : x = sent[i]
      BY <2>1 DEF Range
    <3>. QED
      BY <2>1, <2>2, <2>3, <3>1, ZenonT(30) DEF Range
  <2>5. ASSUME NEW x \in Range(q) \cup Range(msgs) PROVE x \in Range(sent)
    BY <2>1, <2>2, <2>3 DEF Range
  <2>. QED
    BY <2>4, <2>5
<1>3. interrupt_fds_' = [i \in DOMAIN sent |-> Renamed(sent[i], closed)]
  BY DEF SendData, Renamed
<1>4. inbox' = Remaining(inbox, closed)
  BY DEF SendData
<1>. HIDE DEF sent
<1>5. Range(interrupt_fds_') = {Renamed(c, closed) : c \in Range(sent)}
  BY <1>3 DEF Range
<1>6. \A fd \in Fds : socket_map_'[fd] = IF socket_map_[fd] = NULL THEN NULL
                                         ELSE Renamed(socket_map_[fd], closed)
  BY DEF SendData, Renamed
<1>7. inbox' \in Seq(Event) /\ Range(inbox') = {m \in Range(inbox) : m.port \notin closed}
  BY <1>1, <1>4, RemainingLemma
<1>. QED
  BY <1>2, <1>5, <1>6, <1>7

\* Closing a port changes nothing else in a command or a SocketData.
LEMMA RenamedIs ==
  ASSUME NEW closed \in SUBSET Socks
  PROVE  /\ \A c \in Command : /\ Renamed(c, closed).id = c.id
                               /\ Renamed(c, closed).data = c.data
                               /\ c.port \notin closed => Renamed(c, closed) = c
                               /\ c.port \in closed => Renamed(c, closed).port = ClosedPort
         /\ \A sd \in SocketData : /\ sd.port \notin closed => Renamed(sd, closed) = sd
                                   /\ sd.port \in closed => Renamed(sd, closed).port = ClosedPort
  BY DEF Renamed, Retire, Command, SocketData

\* A step of s that sends commands for its descriptor id and closes at most its
\* port, and leaves it with the fields r.
SendStep(s, id, r, msgs, closed) ==
  /\ r \in SocketObject /\ msgs \in Seq(Command) /\ closed \in {{}, {s}}
  /\ SendData(msgs, closed)
  /\ \A c \in Range(msgs) : c.id = id /\ c.port = s
  /\ id = sock[s]._id \/ (~Open(sock[s]) /\ id \in Fds /\ file[id] = NULL)
  /\ sock' = [sock EXCEPT ![s] = r]
  /\ r._id = id \/ (r._id = -1 /\ closed = {s})
  /\ \A fd \in Fds : file'[fd] = NULL => file[fd] = NULL

\* Such a step keeps PortInv and touches nothing that is said of other sockets.
LEMMA SendPorts ==
  ASSUME SocketsInv, PortInv, NEW s \in Socks, NEW id, NEW r, NEW msgs, NEW closed,
         SendStep(s, id, r, msgs, closed)
  PROVE  /\ PortInv'
         /\ \A t \in Socks \ {s} :
              /\ EventsFor(t)' = EventsFor(t)
              /\ \A fd \in Fds : fd = sock[t]._id =>
                   CommandsFor(fd)' = CommandsFor(fd) /\ socket_map_'[fd] = socket_map_[fd]
<1>. /\ r \in SocketObject /\ msgs \in Seq(Command) /\ closed \in {{}, {s}}
     /\ SendData(msgs, closed)
     /\ \A c \in Range(msgs) : c.id = id /\ c.port = s
     /\ id = sock[s]._id \/ (~Open(sock[s]) /\ id \in Fds /\ file[id] = NULL)
     /\ sock' = [sock EXCEPT ![s] = r]
     /\ r._id = id \/ (r._id = -1 /\ closed = {s})
     /\ \A fd \in Fds : file'[fd] = NULL => file[fd] = NULL
  BY DEF SendStep
<1>. PICK p, q : p = Range(interrupt_fds_') /\ q = Range(interrupt_fds_)
  OBVIOUS
<1>1. p = {Renamed(c, closed) : c \in q \cup Range(msgs)}
  BY SendView
<1>2. \A c \in q \cup Range(msgs) : c \in Command
  <2>1. interrupt_fds_ \in Seq(Command)
    BY DEF SocketsInv, SocketsTypeOK
  <2>. QED
    BY <2>1 DEF Range
<1>3. /\ \A fd \in Fds : socket_map_'[fd] = IF socket_map_[fd] = NULL THEN NULL
                                            ELSE Renamed(socket_map_[fd], closed)
      /\ \A fd \in Fds : socket_map_[fd] # NULL => socket_map_[fd] \in SocketData
      /\ NULL \notin SocketData
  <2>1. socket_map_ \in [Fds -> SocketData \cup {NULL}]
    BY DEF SocketsInv, SocketsTypeOK
  <2>. QED
    BY <2>1, SendView, SocketsAssumption
<1>4. inbox' \in Seq(Event) /\ Range(inbox') = {m \in Range(inbox) : m.port \notin closed}
  BY SendView
<1>5. closed \in SUBSET Socks /\ -1 \notin Fds /\ ClosedPort \notin Socks
  BY SocketsAssumption, EventHandlerAssumption
<1>6. /\ \A c \in q : c.port \in Socks => sock[c.port]._id = c.id
      /\ \A fd \in Fds : socket_map_[fd] # NULL /\ socket_map_[fd].port \in Socks =>
                           sock[socket_map_[fd].port]._id = fd
      /\ \A m \in Range(inbox) : m.port \in Socks /\ Open(sock[m.port])
  <2>1. \A m \in Range(inbox) : m \in Event
    BY DEF PortInv, Range
  <2>. QED
    BY <2>1 DEF PortInv, Event
<1>7. \A t \in Socks : /\ t # s => sock'[t] = sock[t]
                       /\ t = s => sock'[t] = r
  BY SocketTypes
<1>8. \A c \in q \cup Range(msgs) : c.id \in Fds
  BY <1>2 DEF Command
<1>9. Open(sock[s]) => id = sock[s]._id
  OBVIOUS
<1>10. \A t \in Socks \ {s} : sock[t]._id \in Fds => sock[t]._id # sock[s]._id /\ sock[t]._id # id
  BY <1>5, FreeHasNoCommand DEF SocketsInv, OwnerInv, Open
<1>11. PortInv'
  <2>1. ASSUME NEW d \in p, d.port \in Socks PROVE sock'[d.port]._id = d.id
    <3>1. PICK c \in q \cup Range(msgs) : d = Renamed(c, closed)
      BY <1>1
    <3>2. d = c /\ c.port \notin closed
      BY <1>2, <1>5, <2>1, <3>1, RenamedIs
    <3>3. CASE c \in q
      <4>1. sock[c.port]._id = c.id /\ c.id # -1
        BY <1>5, <1>6, <1>8, <2>1, <3>2, <3>3
      <4>2. c.port = s => closed = {} /\ id = c.id
        BY <1>9, <3>2, <4>1 DEF Open
      <4>. QED
        BY <1>7, <2>1, <3>2, <4>1, <4>2
    <3>4. CASE c \in Range(msgs)
      BY <1>7, <3>2, <3>4
    <3>. QED
      BY <3>3, <3>4
  <2>2. ASSUME NEW fd \in Fds, socket_map_'[fd] # NULL, socket_map_'[fd].port \in Socks
        PROVE  sock'[socket_map_'[fd].port]._id = fd
    <3>1. /\ socket_map_[fd] # NULL /\ socket_map_'[fd] = socket_map_[fd]
          /\ socket_map_[fd].port \notin closed
      BY <1>3, <1>5, <2>2, RenamedIs
    <3>2. socket_map_[fd].port = s => closed = {} /\ id = fd
      BY <1>5, <1>6, <1>9, <2>2, <3>1 DEF Open
    <3>. QED
      BY <1>6, <1>7, <2>2, <3>1, <3>2
  <2>3. \A fd \in Fds : file'[fd] = NULL => socket_map_'[fd] = NULL
    BY <1>3 DEF PortInv
  <2>4. ASSUME NEW m \in Range(inbox') PROVE Open(sock'[m.port])
    <3>1. m \in Range(inbox) /\ m.port \notin closed /\ m.port \in Socks /\ Open(sock[m.port])
      BY <1>4, <1>6
    <3>2. m.port = s => r._id = sock[s]._id
      BY <1>9, <3>1
    <3>. QED
      BY <1>7, <3>1, <3>2 DEF Open
  <2>. QED
    BY <1>4, <2>1, <2>2, <2>3, <2>4 DEF PortInv
<1>12. ASSUME NEW t \in Socks \ {s} PROVE EventsFor(t)' = EventsFor(t)
  BY <1>4 DEF EventsFor
<1>13. ASSUME NEW t \in Socks \ {s}, NEW fd \in Fds, fd = sock[t]._id
       PROVE  CommandsFor(fd)' = CommandsFor(fd) /\ socket_map_'[fd] = socket_map_[fd]
  <2>1. fd # sock[s]._id /\ fd # id
    BY <1>10, <1>13
  <2>2. \A c \in q : c.id = fd => c.port \notin closed /\ Renamed(c, closed) = c
    BY <1>2, <1>5, <1>6, <2>1, RenamedIs
  <2>3. \A c \in q \cup Range(msgs) : Renamed(c, closed).id = c.id
    BY <1>2, <1>5, RenamedIs
  <2>4. {d \in p : d.id = fd} = {c \in q : c.id = fd}
    <3>1. ASSUME NEW d \in p, d.id = fd PROVE d \in q
      <4>1. PICK c \in q \cup Range(msgs) : d = Renamed(c, closed)
        BY <1>1
      <4>2. c.id = fd
        BY <2>3, <3>1, <4>1
      <4>. QED
        BY <2>1, <2>2, <4>1, <4>2
    <3>2. ASSUME NEW c \in q, c.id = fd PROVE c \in p
      BY <1>1, <2>2, <3>2
    <3>. QED
      BY <3>1, <3>2
  <2>5. socket_map_'[fd] = socket_map_[fd]
    BY <1>3, <1>5, <1>6, <2>1, RenamedIs
  <2>. QED
    BY <2>4, <2>5 DEF CommandsFor
<1>. QED
  BY <1>11, <1>12, <1>13

\* The same step, for s itself.
LEMMA SendHere ==
  ASSUME SocketsInv, PortInv, NEW s \in Socks, NEW id \in Fds,
         NEW msgs \in Seq(Command), NEW closed \in {{}, {s}}, SendData(msgs, closed),
         \A c \in Range(msgs) : c.id = id
  PROVE  /\ closed = {} => /\ EventsFor(s)' = EventsFor(s)
                           /\ CommandsFor(id)' = CommandsFor(id) \cup Range(msgs)
                           /\ socket_map_'[id] = socket_map_[id]
         /\ closed = {s} => /\ EventsFor(s)' = {}
                            /\ msgs = <<>> /\ CommandsFor(id) = {} => CommandsFor(id)' = {}
         /\ socket_map_[id] = NULL => socket_map_'[id] = NULL
<1>. PICK p, q : p = Range(interrupt_fds_') /\ q = Range(interrupt_fds_)
  OBVIOUS
<1>1. p = {Renamed(c, closed) : c \in q \cup Range(msgs)}
  BY SendView
<1>2. \A c \in q \cup Range(msgs) : c \in Command
  <2>1. interrupt_fds_ \in Seq(Command)
    BY DEF SocketsInv, SocketsTypeOK
  <2>. QED
    BY <2>1 DEF Range
<1>3. /\ socket_map_'[id] = IF socket_map_[id] = NULL THEN NULL ELSE Renamed(socket_map_[id], closed)
      /\ socket_map_[id] # NULL => socket_map_[id] \in SocketData
  <2>1. socket_map_ \in [Fds -> SocketData \cup {NULL}]
    BY DEF SocketsInv, SocketsTypeOK
  <2>. QED
    BY <2>1, SendView
<1>4. Range(inbox') = {m \in Range(inbox) : m.port \notin closed}
  BY SendView
<1>5. closed \in SUBSET Socks
  OBVIOUS
<1>6. \A c \in q \cup Range(msgs) : Renamed(c, closed).id = c.id /\ (closed = {} => Renamed(c, closed) = c)
  BY <1>2, <1>5, RenamedIs
<1>7. closed = {} => p = q \cup Range(msgs)
  BY <1>1, <1>6
<1>8. CommandsFor(id) = {c \in q : c.id = id} /\ CommandsFor(id)' = {c \in p : c.id = id}
  BY DEF CommandsFor
<1>9. closed = {} => CommandsFor(id)' = CommandsFor(id) \cup Range(msgs)
  BY <1>7, <1>8
<1>10. msgs = <<>> /\ CommandsFor(id) = {} => CommandsFor(id)' = {}
  <2>1. msgs = <<>> => Range(msgs) = {}
    BY DEF Range
  <2>. QED
    BY <1>1, <1>6, <1>8, <2>1
<1>11. closed = {} => socket_map_'[id] = socket_map_[id]
  BY <1>3, <1>5, RenamedIs
<1>12. /\ closed = {} => EventsFor(s)' = EventsFor(s)
       /\ closed = {s} => EventsFor(s)' = {}
  BY <1>4 DEF EventsFor
<1>. QED
  BY <1>3, <1>9, <1>10, <1>11, <1>12

\* What a method of s may return so that StreamOK holds afterwards, given what
\* StreamOK speaks of.
Preserves(s, result, commands, sd, evs, cur, ends) ==
  /\ result.sends = <<>> \/ \E c \in Command : result.sends = <<c>> /\ c.port = s
  /\ Reads(result.sock) /\ result.sock._handlerMask # {} => "close" \in result.sock._handlerMask
  /\ IF result.sock._handler
     THEN StreamOK(s, result.sock, commands \cup Range(result.sends), sd, evs, cur, ends)
     ELSE Reads(result.sock) /\ Open(result.sock) =>
            /\ result.sock._handlerMask = {} /\ result.sends = <<>> /\ ~cur
            /\ commands = {} /\ sd = NULL

\* A method of s that preserves StreamOK for s preserves it for all sockets.
LEMMA DoesStream ==
  ASSUME SocketsInv, StreamsInv, NEW s \in Socks, NEW r \in SocketObject, NEW result,
         Outcome(r, result), Does(s, result),
         r._id = sock[s]._id \/ (~Open(sock[s]) /\ r._id \in Fds /\ file[r._id] = NULL),
         \A fd \in Fds : file'[fd] = NULL => file[fd] = NULL,
         \A t \in Socks \ {s} : (current' = t <=> current = t) /\ (EndsNow(t)' <=> EndsNow(t)),
         Preserves(s, result, CommandsFor(r._id), socket_map_[r._id], EventsFor(s), current' = s, EndsNow(s)'),
         result.sock._id = -1 /\ r._id # -1 => ~result.sock._handler
  PROVE  PortInv' /\ \A t \in Socks : StreamAt(t)'
<1>. PICK id, msgs, closed, new :
       /\ id = r._id /\ msgs = result.sends /\ new = sock'[s]
       /\ closed = IF result.sock._handler THEN {} ELSE {s}
  BY ZenonT(30)
<1>1. result.sock \in SocketObject /\ sock \in [Socks -> SocketObject]
  BY SocketTypes DEF Outcome
<1>2. Forgotten \in SocketObject /\ Forgotten._id = -1 /\ Forgotten._handlerMask = {}
  BY DEF Forgotten, NewSocket, SocketObject, Open
<1>3. /\ sock' = [sock EXCEPT ![s] = new] /\ new \in SocketObject
      /\ new = result.sock \/ (new = Forgotten /\ ~Open(result.sock))
  BY <1>1, <1>2, ZenonT(30) DEF Does
<1>4. SendData(msgs, closed) /\ closed \in {{}, {s}}
  BY ZenonT(30) DEF Does
<1>5. msgs = <<>> \/ \E c \in Command : msgs = <<c>> /\ c.id = id /\ c.port = s
  <2>1. msgs = <<>> \/ \E c \in Command : msgs = <<c>> /\ c.port = s
    BY DEF Preserves
  <2>2. msgs = <<>> \/ \E c \in Command : msgs = <<c>> /\ c.id = id
    BY DEF Outcome
  <2>3. \A c, d : <<c>> = <<d>> => c = d
    OBVIOUS
  <2>. QED
    BY <2>1, <2>2, <2>3, ZenonT(30)
<1>6. msgs \in Seq(Command) /\ \A c \in Range(msgs) : c.id = id /\ c.port = s
  <2>1. CASE msgs = <<>>
    BY <2>1 DEF Range
  <2>2. ASSUME NEW c \in Command, msgs = <<c>>, c.id = id, c.port = s
        PROVE  msgs \in Seq(Command) /\ \A d \in Range(msgs) : d.id = id /\ d.port = s
    <3>1. msgs \in Seq(Command) /\ DOMAIN msgs = {1} /\ msgs[1] = c
      BY <2>2
    <3>. QED
      BY <2>2, <3>1 DEF Range
  <2>. QED
    BY <1>5, <2>1, <2>2
<1>7. new._id = result.sock._id /\ (result.sock._id = id \/ (result.sock._id = -1 /\ closed = {s}))
  <2>1. result.sock._id = id \/ (result.sock._id = -1 /\ id # -1)
    BY DEF Outcome, Open
  <2>. QED
    BY <1>2, <1>3, <2>1 DEF Open
<1>8. PortInv
  BY DEF StreamsInv
<1>9. /\ PortInv'
      /\ \A t \in Socks \ {s} :
           /\ EventsFor(t)' = EventsFor(t)
           /\ \A fd \in Fds : fd = sock[t]._id =>
                CommandsFor(fd)' = CommandsFor(fd) /\ socket_map_'[fd] = socket_map_[fd]
  <2>1. id = sock[s]._id \/ (~Open(sock[s]) /\ id \in Fds /\ file[id] = NULL)
    OBVIOUS
  <2>2. new._id = id \/ (new._id = -1 /\ closed = {s})
    BY <1>7
  <2>. QED
    <3>1. SendStep(s, id, new, msgs, closed)
      BY <1>3, <1>4, <1>6, <2>1, <2>2 DEF SendStep
    <3>. QED
      BY <1>8, <3>1, SendPorts
<1>10. ASSUME NEW t \in Socks \ {s} PROVE StreamAt(t)'
  <2>1. Same(t)
    BY <1>1, <1>3, <1>9 DEF Same
  <2>. QED
    BY <2>1, SameStream, ZenonT(30) DEF StreamsInv
<1>11. StreamAt(s)'
  <2>1. CASE ~Open(new)
    <3>1. Reads(new) /\ new._handlerMask # {} => "close" \in new._handlerMask
      BY <1>2, <1>3 DEF Preserves
    <3>. QED
      BY <2>1, <3>1, ZenonT(30) DEF StreamAt, StreamOK
  <2>2. CASE Open(new)
    <3>1. new = result.sock /\ new._id = id /\ id \in Fds
      BY <1>1, <1>2, <1>3, <1>7, <2>2, ZenonT(30) DEF Open, SocketObject
    <3>2. /\ closed = {} => /\ EventsFor(s)' = EventsFor(s)
                            /\ CommandsFor(id)' = CommandsFor(id) \cup Range(msgs)
                            /\ socket_map_'[id] = socket_map_[id]
          /\ closed = {s} => /\ EventsFor(s)' = {}
                             /\ msgs = <<>> /\ CommandsFor(id) = {} => CommandsFor(id)' = {}
          /\ socket_map_[id] = NULL => socket_map_'[id] = NULL
      <4>1. \A c \in Range(msgs) : c.id = id
        BY <1>6, ZenonT(30)
      <4>. QED
        BY <1>4, <1>6, <1>8, <3>1, <4>1, SendHere
    <3>3. StreamOK(s, new, CommandsFor(id)', socket_map_'[id], EventsFor(s)', current' = s, EndsNow(s)')
      <4>1. CASE new._handler
        <5>1. closed = {}
          BY <3>1, <4>1
        <5>2. StreamOK(s, new, CommandsFor(id) \cup Range(msgs), socket_map_[id], EventsFor(s), current' = s, EndsNow(s)')
          BY <3>1, <4>1 DEF Preserves
        <5>. QED
          BY <3>2, <5>1, <5>2, ZenonT(30)
      <4>2. CASE ~new._handler
        <5>1. closed = {s}
          BY <3>1, <4>2
        <5>2. /\ Reads(new) => /\ new._handlerMask = {} /\ msgs = <<>> /\ ~(current' = s)
                               /\ CommandsFor(id) = {} /\ socket_map_[id] = NULL
          BY <2>2, <3>1, <4>2, ZenonT(30) DEF Preserves
        <5>. QED
          BY <3>2, <5>1, <5>2 DEF StreamOK
      <4>. QED
        BY <4>1, <4>2
    <3>4. sock'[s]._id = id
      BY <3>1
    <3>5. CommandsFor(sock[s]._id)' = CommandsFor(id)' /\ socket_map_'[sock'[s]._id] = socket_map_'[id]
      BY <3>4 DEF CommandsFor
    <3>. QED
      BY <3>3, <3>5, ZenonT(30) DEF StreamAt
  <2>. QED
    BY <2>1, <2>2
<1>. QED
  BY <1>9, <1>10, <1>11

-----------------------------------------------------------------------------
(* The methods of _SocketBase.                                             *)

ClosesMask(r) == Reads(r) /\ r._handlerMask # {} => "close" \in r._handlerMask

\* A method that sends a command opens the port.
LEMMA SendPreserves ==
  ASSUME NEW s \in Socks, NEW r \in SocketObject, Open(r), ClosesMask(r),
         NEW data \in Masks \cup {{"kShutdownWriteCommand"}},
         NEW commands, NEW sd, NEW evs, NEW cur, NEW ends,
         StreamOK(s, [r EXCEPT !._handler = TRUE], commands \cup {InterruptMessage(r._id, s, data)},
                  sd, evs, cur, ends)
  PROVE  Preserves(s, SendToEventHandler(s, r, data), commands, sd, evs, cur, ends)
<1>. DEFINE m == InterruptMessage(r._id, s, data)
            on == [r EXCEPT !._handler = TRUE]
<1>1. m \in Command /\ m.port = s
  BY DEF InterruptMessage, Command, SocketObject, Open
<1>2. Range(<<m>>) = {m}
  <2>. HIDE DEF m
  <2>1. DOMAIN <<m>> = {1} /\ <<m>>[1] = m
    OBVIOUS
  <2>. QED
    BY <2>1 DEF Range
<1>3. /\ SendToEventHandler(s, r, data).sock = on
      /\ SendToEventHandler(s, r, data).sends = <<m>>
  BY DEF SendToEventHandler
<1>4. on._handler /\ on._handlerMask = r._handlerMask /\ on.kind = r.kind
  BY DEF SocketObject
<1>. HIDE DEF m, on
<1>5. Reads(on) /\ on._handlerMask # {} => "close" \in on._handlerMask
  BY <1>4 DEF ClosesMask, Reads
<1>6. StreamOK(s, on, commands \cup Range(<<m>>), sd, evs, cur, ends)
  BY <1>2 DEF on, m
<1>. QED
  BY <1>1, <1>3, <1>4, <1>5, <1>6 DEF Preserves

\* A method that sends nothing.
LEMMA QuietPreserves ==
  ASSUME NEW s \in Socks, NEW r \in SocketObject, ClosesMask(r),
         NEW commands, NEW sd, NEW evs, NEW cur, NEW ends,
         IF r._handler THEN StreamOK(s, r, commands, sd, evs, cur, ends)
         ELSE Reads(r) /\ Open(r) => r._handlerMask = {} /\ ~cur /\ commands = {} /\ sd = NULL
  PROVE  Preserves(s, Quiet(r), commands, sd, evs, cur, ends)
<1>1. Quiet(r).sock = r /\ Quiet(r).sends = <<>>
  BY DEF Quiet
<1>2. commands \cup Range(<<>>) = commands
  BY DEF Range
<1>. QED
  BY <1>1, <1>2, ZenonT(30) DEF Preserves, ClosesMask

\* What _activateHandlers needs: nothing is under way for a socket without
\* handlers, and the conditions of StreamOK that do not speak of the handlers.
Activates(s, r, commands, sd, evs, cur, ends) ==
  /\ ClosesMask(r)
  /\ Reads(r) /\ Open(r) =>
       IF r._handlerMask = {} THEN ~cur /\ commands = {} /\ sd = NULL
       ELSE /\ \A c \in commands : c.port = s
            /\ sd # NULL => sd.port \in {s, NoPort}
            /\ sd # NULL /\ "kClosedRead" \in sd.flags /\ ~r._closedRead =>
                 ends \/ \E m \in evs : m.message \cap Ending # {}

\* _activateHandlers, which sends the mask and opens or closes the port.
LEMMA ActivatePreserves ==
  ASSUME NEW s \in Socks, NEW r \in SocketObject, r._canActivateHandlers, Open(r),
         NEW commands, NEW sd, NEW evs, NEW cur, NEW ends,
         Activates(s, r, commands, sd, evs, cur, ends)
  PROVE  Preserves(s, ActivateHandlers(s, r), commands, sd, evs, cur, ends)
<1>1. CASE r._handlerMask = {}
  <2>. DEFINE off == [r EXCEPT !._handler = FALSE]
  <2>1. /\ off \in SocketObject /\ off._handlerMask = {} /\ ~off._handler
        /\ off.kind = r.kind /\ off._id = r._id
    BY <1>1, ZenonT(30) DEF SocketObject, Open
  <2>2. ActivateHandlers(s, r) = Quiet(off)
    BY <1>1 DEF ActivateHandlers
  <2>. HIDE DEF off
  <2>3. Reads(off) /\ Open(off) => ~cur /\ commands = {} /\ sd = NULL
    BY <1>1, <2>1 DEF Activates, Reads, Open
  <2>4. ClosesMask(off)
    BY <2>1 DEF ClosesMask
  <2>. QED
    BY <2>1, <2>2, <2>3, <2>4, QuietPreserves
<1>2. CASE r._handlerMask # {}
  <2>. DEFINE m == InterruptMessage(r._id, s, HandlerData(r))
              on == [r EXCEPT !._handler = TRUE]
  <2>1. ActivateHandlers(s, r) = SendToEventHandler(s, r, HandlerData(r))
    BY <1>2 DEF ActivateHandlers
  <2>2. /\ on._handlerMask = r._handlerMask /\ on._handler /\ on.kind = r.kind /\ on._id = r._id
        /\ on._closedRead = r._closedRead
    BY DEF SocketObject
  <2>3. m.port = s /\ HandlerData(r) \in Masks
    BY HandlerDataMask DEF InterruptMessage
  <2>4. ClosesMask(r)
    BY DEF Activates
  <2>5. StreamOK(s, on, commands \cup {m}, sd, evs, cur, ends)
    <3>. HIDE DEF m, on
    <3>. QED
      BY <1>2, <2>2, <2>3 DEF Activates, StreamOK, ClosesMask, Reads, Open
  <2>. QED
    BY <2>1, <2>3, <2>4, <2>5, SendPreserves
<1>. QED
  BY <1>1, <1>2, ZenonT(30)

\* _setHandler, if a socket that is read from has its close handler.
LEMMA SetHandlerPreserves ==
  ASSUME NEW s \in Socks, NEW r \in SocketObject,
         NEW mask \in SUBSET {"in", "out", "close"}, Reads(r) => "close" \in mask,
         NEW commands, NEW sd, NEW evs, NEW cur, NEW ends, r._canActivateHandlers <=> ~cur,
         StreamOK(s, r, commands, sd, evs, cur, ends)
  PROVE  Preserves(s, SetHandlerMask(s, r, mask), commands, sd, evs, cur, ends)
<1>. DEFINE set == [r EXCEPT !._handlerMask = mask]
            off == [set EXCEPT !._handler = FALSE]
<1>1. /\ set \in SocketObject /\ set._handlerMask = mask /\ set.kind = r.kind /\ set._id = r._id
      /\ set._handler = r._handler /\ set._closedRead = r._closedRead
      /\ set._canActivateHandlers = r._canActivateHandlers
  BY DEF SocketObject, Open
<1>2. /\ off \in SocketObject /\ off._handlerMask = mask /\ off.kind = r.kind /\ ~off._handler
  BY ZenonT(30) DEF SocketObject, Open
<1>3. /\ SetHandlerMask(s, r, mask) =
           IF IsSocket(r) /\ r._closedRead /\ mask = {} /\ r._handler
           THEN Quiet(off) ELSE ActivateHandlers(s, set)
  BY DEF SetHandlerMask
<1>. HIDE DEF set, off
<1>4. ClosesMask(set) /\ ClosesMask(off)
  BY <1>1, <1>2 DEF ClosesMask, Reads
<1>5. CASE mask = {} /\ SetHandlerMask(s, r, mask) = Quiet(off)
  <2>1. ~Reads(off)
    BY <1>2, <1>5 DEF Reads
  <2>. QED
    BY <1>2, <1>4, <1>5, <2>1, QuietPreserves
<1>6. CASE Open(r) /\ r._canActivateHandlers
  <2>1. Open(set) /\ set._canActivateHandlers
    BY <1>1, <1>6 DEF Open
  <2>2. Activates(s, set, commands, sd, evs, cur, ends)
    BY <1>1, <1>4, <1>6 DEF Activates, StreamOK, Reads, Open
  <2>3. Preserves(s, ActivateHandlers(s, set), commands, sd, evs, cur, ends)
    BY <1>1, <2>1, <2>2, ActivatePreserves, ZenonT(30)
  <2>. QED
    BY <1>3, <1>5, <2>3
<1>7. CASE ~(Open(r) /\ r._canActivateHandlers)
  <2>1. ActivateHandlers(s, set) = Quiet(set)
    BY <1>1, <1>7 DEF ActivateHandlers, Open
  <2>2. CASE r._handler
    <3>1. StreamOK(s, set, commands, sd, evs, cur, ends)
      BY <1>1, <1>4, <2>2 DEF StreamOK, ClosesMask, Reads, Open
    <3>2. Preserves(s, Quiet(set), commands, sd, evs, cur, ends)
      BY <1>1, <1>4, <2>2, <3>1, QuietPreserves, ZenonT(30)
    <3>. QED
      BY <1>3, <1>5, <2>1, <3>2
  <2>3. CASE ~r._handler
    <3>1. ~(Reads(set) /\ Open(set))
      BY <1>1, <1>7, <2>3 DEF StreamOK, Reads, Open
    <3>2. Preserves(s, Quiet(set), commands, sd, evs, cur, ends)
      BY <1>1, <1>4, <2>3, <3>1, QuietPreserves
    <3>. QED
      BY <1>3, <2>1, <2>3, <3>2
  <2>. QED
    BY <2>2, <2>3
<1>. QED
  BY <1>6, <1>7

\* close(): a closed socket is owed nothing.
LEMMA ClosePreserves ==
  ASSUME NEW s \in Socks, NEW r \in SocketObject, ClosesMask(r),
         NEW commands, NEW sd, NEW evs, NEW cur, NEW ends
  PROVE  Preserves(s, CloseSocket(s, r), commands, sd, evs, cur, ends)
<1>1. CASE ~Open(r)
  <2>1. StreamOK(s, r, commands, sd, evs, cur, ends)
    BY <1>1 DEF StreamOK, ClosesMask
  <2>2. CloseSocket(s, r) = Quiet(r)
    BY <1>1 DEF CloseSocket
  <2>. QED
    BY <1>1, <2>1, <2>2, QuietPreserves
<1>2. CASE Open(r)
  <2>. DEFINE shut == [r EXCEPT !._handler = FALSE, !._id = -1]
              m == InterruptMessage(r._id, s, kClose)
  <2>1. CloseSocket(s, r) = [sock |-> shut, sends |-> <<m>>]
    BY <1>2 DEF CloseSocket, kClose
  <2>2. /\ shut._id = -1 /\ ~shut._handler /\ shut._handlerMask = r._handlerMask
        /\ shut.kind = r.kind
    BY DEF SocketObject
  <2>3. m \in Command /\ m.port = s
    BY <1>2 DEF InterruptMessage, Command, SocketObject, Open, kClose
  <2>. HIDE DEF shut, m
  <2>4. CloseSocket(s, r).sock = shut /\ CloseSocket(s, r).sends = <<m>>
    BY <2>1
  <2>5. ~Open(shut) /\ (Reads(shut) /\ shut._handlerMask # {} => "close" \in shut._handlerMask)
    BY <2>2 DEF Open, ClosesMask, Reads
  <2>. QED
    BY <2>2, <2>3, <2>4, <2>5 DEF Preserves
<1>. QED
  BY <1>1, <1>2

\* _closeWrite sends a command for the port, which is opened before.
LEMMA CloseWritePreserves ==
  ASSUME NEW s \in Socks, NEW r \in SocketObject, Open(r),
         NEW commands, NEW sd, NEW evs, NEW cur, NEW ends,
         StreamOK(s, r, commands, sd, evs, cur, ends)
  PROVE  Preserves(s, CloseWrite(s, r), commands, sd, evs, cur, ends)
<1>. DEFINE closed == [r EXCEPT !._closedWrite = TRUE]
            on == [closed EXCEPT !._handler = TRUE]
            data == {"kShutdownWriteCommand"}
            m == InterruptMessage(closed._id, s, data)
<1>1. /\ closed \in SocketObject /\ closed._id = r._id /\ closed.kind = r.kind
      /\ closed._handlerMask = r._handlerMask
  BY ZenonT(30) DEF SocketObject, Open
<1>2. /\ on.kind = r.kind /\ on._handlerMask = r._handlerMask /\ on._handler /\ on._id = r._id
      /\ on._closedRead = r._closedRead
  BY DEF SocketObject, Open
<1>3. m.port = s /\ m.data \notin Masks
  BY DEF InterruptMessage, Masks
<1>4. CloseWrite(s, r) = IF r._closedRead THEN CloseSocket(s, closed)
                         ELSE SendToEventHandler(s, closed, data)
  BY DEF CloseWrite
<1>5. ClosesMask(closed) /\ Open(closed)
  BY <1>1 DEF StreamOK, ClosesMask, Reads, Open
<1>. HIDE DEF closed
<1>6. Preserves(s, CloseSocket(s, closed), commands, sd, evs, cur, ends)
  BY <1>1, <1>5, ClosePreserves
<1>7. StreamOK(s, on, commands \cup {m}, sd, evs, cur, ends)
  <2>. HIDE DEF on, m
  <2>. QED
    BY <1>2, <1>3 DEF StreamOK, Reads, Open
<1>8. Preserves(s, SendToEventHandler(s, closed, data), commands, sd, evs, cur, ends)
  BY <1>1, <1>5, <1>7, SendPreserves
<1>. QED
  BY <1>4, <1>6, <1>8

\* The fields that the methods leave alone, and a socket that gives up its
\* descriptor closes its port.
Carries(r, result) ==
  /\ result.sock._canActivateHandlers = r._canActivateHandlers
  /\ result.sock.lookup = r.lookup /\ result.sock.kind = r.kind
  /\ r._closedRead => result.sock._closedRead
  /\ result.sock._id = -1 /\ r._id # -1 => ~result.sock._handler

\* No method reopens the input of a socket or changes its kind.
LEMMA MethodsCarry ==
  ASSUME NEW s \in Socks, NEW r \in SocketObject
  PROVE  /\ Carries(r, Quiet(r))
         /\ Carries(r, ActivateHandlers(s, r))
         /\ \A mask \in SUBSET {"in", "out", "close"} : Carries(r, SetHandlerMask(s, r, mask))
         /\ Carries(r, CloseSocket(s, r))
         /\ Carries(r, CloseWrite(s, r))
<1>1. ASSUME NEW q \in SocketObject PROVE Carries(q, Quiet(q))
  BY DEF Carries, Quiet, SocketObject
<1>2. ASSUME NEW q \in SocketObject PROVE Carries(q, Quiet([q EXCEPT !._handler = FALSE]))
  BY DEF Carries, Quiet, SocketObject
<1>3. ASSUME NEW q \in SocketObject, NEW data PROVE Carries(q, SendToEventHandler(s, q, data))
  BY DEF Carries, SendToEventHandler, SocketObject
<1>4. ASSUME NEW q \in SocketObject PROVE Carries(q, ActivateHandlers(s, q))
  BY <1>1, <1>2, <1>3 DEF ActivateHandlers
<1>5. ASSUME NEW q \in SocketObject PROVE Carries(q, CloseSocket(s, q))
  <2>1. CASE Open(q)
    BY <2>1, ZenonT(30) DEF CloseSocket, Carries, SocketObject
  <2>. QED
    BY <1>1, <2>1 DEF CloseSocket
<1>6. ASSUME NEW mask \in SUBSET {"in", "out", "close"} PROVE Carries(r, SetHandlerMask(s, r, mask))
  <2>. DEFINE set == [r EXCEPT !._handlerMask = mask]
  <2>1. /\ set \in SocketObject /\ set._id = r._id /\ set.lookup = r.lookup
        /\ set._canActivateHandlers = r._canActivateHandlers
        /\ set.kind = r.kind /\ set._closedRead = r._closedRead
    BY DEF SocketObject, Open
  <2>2. \/ SetHandlerMask(s, r, mask) = Quiet([set EXCEPT !._handler = FALSE])
        \/ SetHandlerMask(s, r, mask) = ActivateHandlers(s, set)
    BY DEF SetHandlerMask
  <2>. HIDE DEF set
  <2>3. Carries(set, SetHandlerMask(s, r, mask))
    BY <1>2, <1>4, <2>1, <2>2
  <2>. QED
    BY <2>1, <2>3 DEF Carries
<1>7. Carries(r, CloseWrite(s, r))
  <2>. DEFINE closed == [r EXCEPT !._closedWrite = TRUE]
  <2>1. /\ closed \in SocketObject /\ closed._id = r._id /\ closed.lookup = r.lookup
        /\ closed._canActivateHandlers = r._canActivateHandlers
        /\ closed.kind = r.kind /\ closed._closedRead = r._closedRead
    BY ZenonT(30) DEF SocketObject, Open
  <2>2. \/ CloseWrite(s, r) = Quiet(r)
        \/ CloseWrite(s, r) = CloseSocket(s, closed)
        \/ CloseWrite(s, r) = SendToEventHandler(s, closed, {"kShutdownWriteCommand"})
    BY DEF CloseWrite
  <2>. HIDE DEF closed
  <2>3. Carries(r, CloseWrite(s, r)) \/ Carries(closed, CloseWrite(s, r))
    BY <1>1, <1>3, <1>5, <2>1, <2>2
  <2>. QED
    BY <2>1, <2>3 DEF Carries
<1>. QED
  BY <1>1, <1>4, <1>5, <1>6, <1>7

-----------------------------------------------------------------------------
(* The steps of the isolate.                                               *)

\* A step of s does what a method has returned.
Returns(s, r, result) ==
  /\ Outcome(r, result) /\ Carries(r, result) /\ Does(s, result)
  /\ Preserves(s, result, CommandsFor(r._id), socket_map_[r._id], EventsFor(s),
               current' = s, EndsNow(s)')

\* _multiplex goes on or ends, and has looked at the data.
Moves(s) ==
  /\ current' \in {current, NULL} /\ (current' # current => current = s)
  /\ current' = NULL => running' = NULL /\ todo' = {}
  /\ "in" \notin todo' /\ (todo' # todo => current = s) /\ todo' \subseteq todo
  /\ UNCHANGED timeout_

\* A method that returns keeps the invariant, wherever it was called from.
LEMMA ReturnsInv ==
  ASSUME SocketsInv, StreamsInv, NEW s \in Socks, NEW r \in SocketObject, NEW result,
         Returns(s, r, result), Moves(s),
         ~r._canActivateHandlers <=> current' = s, r.lookup => sock[s].lookup,
         r.kind = "out" => r._closedRead,
         r._id = sock[s]._id \/ (~Open(sock[s]) /\ r._id \in Fds /\ file[r._id] = NULL),
         \A fd \in Fds : file'[fd] = NULL => file[fd] = NULL
  PROVE  StreamsInv'
<1>1. NULL \notin Socks
  BY SocketsAssumption
<1>2. /\ current \in Socks \cup {NULL}
      /\ \A t \in Socks : (~sock[t]._canActivateHandlers <=> current = t) /\ (current = t => ~sock[t].lookup)
  BY DEF StreamsInv, CurrentInv
<1>3. \A t \in Socks \ {s} : (current' = t <=> current = t) /\ (EndsNow(t)' <=> EndsNow(t))
  BY <1>1, <1>2 DEF Moves, EndsNow
<1>4. PortInv' /\ \A t \in Socks : StreamAt(t)'
  BY <1>3, DoesStream, ZenonT(30) DEF Returns, Carries
<1>5. CurrentInv'
  <2>1. /\ sock'[s] = result.sock \/ (sock'[s] = Forgotten /\ current' # s)
        /\ \A t \in Socks \ {s} : sock'[t] = sock[t]
    BY SocketTypes, ZenonT(30) DEF Returns, Does
  <2>2. Forgotten._canActivateHandlers
    BY DEF Forgotten, NewSocket
  <2>3. /\ ~sock'[s]._canActivateHandlers <=> current' = s
        /\ current' = s => ~sock'[s].lookup
    BY <1>1, <1>2, <2>1, <2>2 DEF Returns, Carries, Moves
  <2>4. \A t \in Socks \ {s} : /\ ~sock'[t]._canActivateHandlers <=> current' = t
                               /\ current' = t => ~sock'[t].lookup
    BY <1>2, <1>3, <2>1
  <2>5. /\ current' \in Socks \cup {NULL}
        /\ current' = NULL => running' = NULL /\ todo' = {}
        /\ "in" \notin todo' /\ todo' \subseteq {"in", "out", "error", "close"}
    BY <1>2, ZenonT(30) DEF Moves, StreamsInv, CurrentInv
  <2>. QED
    BY <2>3, <2>4, <2>5, ZenonT(30) DEF CurrentInv
<1>6. timeout_' = kInfinityTimeout
  BY DEF Moves, StreamsInv
<1>7. OutputsEnded'
  <2>1. /\ sock'[s] = result.sock \/ sock'[s] = Forgotten
        /\ \A t \in Socks \ {s} : sock'[t] = sock[t]
    BY SocketTypes, ZenonT(30) DEF Returns, Does
  <2>2. Forgotten.kind = "socket"
    BY ZenonT(30) DEF Forgotten, NewSocket
  <2>3. result.sock.kind = "out" => result.sock._closedRead
    BY ZenonT(30) DEF Returns, Carries
  <2>4. \A t \in Socks : sock[t].kind = "out" => sock[t]._closedRead
    BY ZenonT(30) DEF StreamsInv, OutputsEnded
  <2>5. sock'[s].kind = "out" => sock'[s]._closedRead
    BY <2>1, <2>2, <2>3
  <2>6. ASSUME NEW t \in Socks PROVE sock'[t].kind = "out" => sock'[t]._closedRead
    BY <2>1, <2>4, <2>5, ZenonT(30)
  <2>. QED
    BY <2>6, ZenonT(30) DEF OutputsEnded
<1>. QED
  BY <1>4, <1>5, <1>6, <1>7 DEF StreamsInv

\* What StreamsInv gives for one socket.
LEMMA StreamFacts ==
  ASSUME SocketsInv, StreamsInv, NEW s \in Socks
  PROVE  /\ sock[s] \in SocketObject /\ ClosesMask(sock[s])
         /\ StreamOK(s, sock[s], CommandsFor(sock[s]._id), socket_map_[sock[s]._id],
                     EventsFor(s), current = s, EndsNow(s))
         /\ sock[s]._canActivateHandlers <=> ~(current = s)
         /\ current = s => ~sock[s].lookup
         /\ sock[s].kind = "out" => sock[s]._closedRead
  BY SocketTypes, ZenonT(30) DEF StreamsInv, CurrentInv, OutputsEnded, StreamAt, StreamOK, ClosesMask

\* The program calls a method of s.
LEMMA UserReturns ==
  ASSUME SocketsInv, StreamsInv, NEW s \in Socks, UserCode, NEW result,
         Outcome(sock[s], result), Carries(sock[s], result), Does(s, result),
         Preserves(s, result, CommandsFor(sock[s]._id), socket_map_[sock[s]._id], EventsFor(s),
                   current = s, EndsNow(s)),
         Elsewhere, UNCHANGED <<current, todo, running>>
  PROVE  StreamsInv'
<1>1. Moves(s)
  BY ZenonT(30) DEF StreamsInv, CurrentInv, UserCode, Moves, Elsewhere
<1>2. EndsNow(s)' = EndsNow(s) /\ (current' = s) = (current = s)
  BY DEF EndsNow
<1>3. Returns(s, sock[s], result)
  BY <1>2 DEF Returns
<1>4. /\ sock[s] \in SocketObject
      /\ ~sock[s]._canActivateHandlers <=> current' = s
      /\ \A fd \in Fds : file'[fd] = NULL => file[fd] = NULL
  BY StreamFacts, ZenonT(30) DEF Elsewhere
<1>. QED
  BY <1>1, <1>3, <1>4, StreamFacts, ReturnsInv, ZenonT(30)

\* Setting a handler through a stream leaves the close handler set.
LEMMA HandlerSteps ==
  ASSUME SocketsInv, StreamsInv, Streams, NEW s \in Socks, NEW e \in {"in", "out", "close"},
         SetHandler(s, e) \/ ClearHandler(s, e)
  PROVE  StreamsInv'
<1>. PICK mask : \/ mask = sock[s]._handlerMask \cup {e} /\ SetHandler(s, e)
                 \/ mask = sock[s]._handlerMask \ {e} /\ ClearHandler(s, e)
  BY ZenonT(30)
<1>1. mask \in SUBSET {"in", "out", "close"}
  BY SocketTypes DEF SocketObject
<1>2. Reads(sock[s]) => "close" \in mask
  <2>1. CASE SetHandler(s, e) /\ mask = sock[s]._handlerMask \cup {e}
    BY <2>1, ZenonT(30) DEF SetHandler, Reads, IsSocket
  <2>2. CASE ClearHandler(s, e) /\ mask = sock[s]._handlerMask \ {e}
    BY <2>2, StreamFacts, ZenonT(30) DEF ClearHandler, ClosesMask
  <2>. QED
    BY <2>1, <2>2
<1>3. /\ Does(s, SetHandlerMask(s, sock[s], mask)) /\ UserCode /\ Elsewhere
      /\ UNCHANGED <<current, todo, running>>
  BY ZenonT(30) DEF SetHandler, ClearHandler
<1>4. Preserves(s, SetHandlerMask(s, sock[s], mask), CommandsFor(sock[s]._id),
                socket_map_[sock[s]._id], EventsFor(s), current = s, EndsNow(s))
  BY <1>1, <1>2, StreamFacts, SetHandlerPreserves, ZenonT(30)
<1>5. Outcome(sock[s], SetHandlerMask(s, sock[s], mask)) /\ Carries(sock[s], SetHandlerMask(s, sock[s], mask))
  BY <1>1, StreamFacts, SetHandlerOutcome, MethodsCarry, ZenonT(30)
<1>. QED
  BY <1>3, <1>4, <1>5, UserReturns, ZenonT(30)

\* close() and close(true).
LEMMA CloseSteps ==
  ASSUME SocketsInv, StreamsInv, NEW s \in Socks, Close(s) \/ HalfClose(s)
  PROVE  StreamsInv'
<1>1. CASE Close(s)
  <2>1. Preserves(s, CloseSocket(s, sock[s]), CommandsFor(sock[s]._id),
                  socket_map_[sock[s]._id], EventsFor(s), current = s, EndsNow(s))
    BY StreamFacts, ClosePreserves
  <2>2. Outcome(sock[s], CloseSocket(s, sock[s])) /\ Carries(sock[s], CloseSocket(s, sock[s]))
    BY StreamFacts, CloseOutcome, MethodsCarry, ZenonT(30)
  <2>. QED
    BY <1>1, <2>1, <2>2, UserReturns, ZenonT(30) DEF Close
<1>2. CASE HalfClose(s)
  <2>1. Preserves(s, CloseWrite(s, sock[s]), CommandsFor(sock[s]._id),
                  socket_map_[sock[s]._id], EventsFor(s), current = s, EndsNow(s))
    BY <1>2, StreamFacts, CloseWritePreserves DEF HalfClose
  <2>2. Outcome(sock[s], CloseWrite(s, sock[s])) /\ Carries(sock[s], CloseWrite(s, sock[s]))
    BY StreamFacts, CloseWriteOutcome, MethodsCarry, ZenonT(30)
  <2>. QED
    BY <1>2, <2>1, <2>2, UserReturns, ZenonT(30) DEF HalfClose
<1>. QED
  BY <1>1, <1>2

\* A step that changes nothing that StreamsInv speaks of, but the descriptors of
\* the kernel, which stay open, and the events that _multiplex has looked at.
LEMMA QuietStep ==
  ASSUME SocketsInv, StreamsInv, UNCHANGED <<sock, interrupt_fds_, socket_map_, inbox, timeout_>>,
         \A fd \in Fds : file'[fd] = NULL => file[fd] = NULL,
         current' = current, todo' \subseteq todo, todo \cap Ending \subseteq todo',
         current = NULL => running' = NULL, "in" \in todo' => running' = NULL
  PROVE  StreamsInv'
<1>1. PortInv'
  BY DEF StreamsInv, PortInv
<1>2. CurrentInv'
  BY ZenonT(30) DEF StreamsInv, CurrentInv
<1>3. ASSUME NEW t \in Socks PROVE StreamAt(t)'
  <2>1. Same(t)
    BY DEF Same, EndsNow, EventsFor, CommandsFor
  <2>. QED
    BY <2>1, SameStream DEF StreamsInv
<1>. QED
  BY <1>1, <1>2, <1>3 DEF StreamsInv, OutputsEnded

\* A socket gets a descriptor, or is made or given up without one.
LEMMA NewSocketStep ==
  ASSUME SocketsInv, StreamsInv, NEW s \in Socks, NEW r \in SocketObject,
         ~Open(sock[s]), current # s, sock' = [sock EXCEPT ![s] = r],
         r._handlerMask = {}, ~r._handler, r._canActivateHandlers,
         r.kind = "out" => r._closedRead,
         Open(r) => file[r._id] = NULL,
         \A fd \in Fds : file'[fd] = NULL => file[fd] = NULL,
         UNCHANGED <<interrupt_fds_, socket_map_, inbox, timeout_>>,
         current' = current, todo' \subseteq todo, todo \cap Ending \subseteq todo',
         current = NULL => running' = NULL, "in" \in todo' => running' = NULL
  PROVE  StreamsInv'
<1>1. -1 \notin Fds /\ sock[s]._id = -1 /\ sock'[s] = r /\ \A t \in Socks \ {s} : sock'[t] = sock[t]
  BY SocketTypes DEF Open
<1>2. PortInv'
  <2>1. \A c \in Range(interrupt_fds_) : c.id \in Fds
    <3>1. interrupt_fds_ \in Seq(Command)
      BY ZenonT(30) DEF SocketsInv, SocketsTypeOK
    <3>2. \A c \in Range(interrupt_fds_) : c \in Command
      BY <3>1, Elements, ZenonT(30)
    <3>. QED
      BY <3>2, ZenonT(30) DEF Command
  <2>2. \A m \in Range(inbox) : m.port \in Socks
    <3>1. inbox \in Seq(Event)
      BY ZenonT(30) DEF StreamsInv, PortInv
    <3>2. \A m \in Range(inbox) : m \in Event
      BY <3>1, Elements, ZenonT(30)
    <3>. QED
      BY <3>2, ZenonT(30) DEF Event
  <2>3. PortInv
    BY ZenonT(30) DEF StreamsInv
  <2>4. ASSUME NEW t \in Socks, sock[t]._id # -1 PROVE sock'[t] = sock[t]
    BY <1>1, <2>4, ZenonT(30)
  <2>5. ASSUME NEW c \in Range(interrupt_fds_), c.port \in Socks PROVE sock'[c.port]._id = c.id
    <3>1. sock[c.port]._id = c.id
      BY <2>3, <2>5, ZenonT(30) DEF PortInv
    <3>2. sock[c.port]._id # -1
      BY <1>1, <2>1, <3>1, ZenonT(30)
    <3>. QED
      BY <2>4, <2>5, <3>1, <3>2, ZenonT(30)
  <2>6. \A fd \in Fds :
          /\ file'[fd] = NULL => socket_map_[fd] = NULL
          /\ socket_map_[fd] # NULL /\ socket_map_[fd].port \in Socks =>
               sock'[socket_map_[fd].port]._id = fd
    BY <1>1, <2>3, <2>4, ZenonT(30) DEF PortInv
  <2>7. inbox \in Seq(Event) /\ \A m \in Range(inbox) : Open(sock'[m.port])
    BY <2>2, <2>3, <2>4, ZenonT(30) DEF PortInv, Open
  <2>. QED
    BY <2>5, <2>6, <2>7, ZenonT(30) DEF PortInv, Range
<1>3. CurrentInv'
  <2>1. current \in Socks /\ current # s => sock'[current] = sock[current]
    BY <1>1
  <2>2. "in" \in todo' => current \in Socks
    BY DEF StreamsInv, CurrentInv
  <2>. QED
    BY <1>1, <2>1, <2>2, ZenonT(30) DEF StreamsInv, CurrentInv
<1>4. ASSUME NEW t \in Socks \ {s} PROVE StreamAt(t)'
  <2>1. Same(t)
    BY <1>1 DEF Same, EndsNow, EventsFor, CommandsFor
  <2>. QED
    BY <2>1, SameStream DEF StreamsInv
<1>5. StreamAt(s)'
  <2>1. CASE ~Open(r)
    BY <1>1, <2>1, ZenonT(30) DEF StreamAt, StreamOK
  <2>2. CASE Open(r)
    <3>. PICK fd \in Fds : fd = r._id
      BY <2>2 DEF SocketObject, Open
    <3>1. file[fd] = NULL /\ socket_map_[fd] = NULL
      BY <2>2, ZenonT(30) DEF StreamsInv, PortInv
    <3>2. CommandsFor(fd) = {}
      BY <3>1, FreeHasNoCommand DEF CommandsFor, Range, MessagesFor
    <3>3. EventsFor(s) = {} /\ EventsFor(s)' = {}
      BY DEF StreamsInv, PortInv, EventsFor
    <3>4. sock'[s]._id = fd /\ CommandsFor(fd)' = {} /\ socket_map_'[fd] = NULL
      BY <1>1, <3>1, <3>2 DEF CommandsFor
    <3>5. CommandsFor(sock[s]._id)' = {} /\ socket_map_'[sock'[s]._id] = NULL
      BY <3>4 DEF CommandsFor
    <3>. QED
      BY <1>1, <3>3, <3>5 DEF StreamAt, StreamOK
  <2>. QED
    BY <2>1, <2>2
<1>6. OutputsEnded'
  BY <1>1 DEF StreamsInv, OutputsEnded
<1>. QED
  BY <1>2, <1>3, <1>4, <1>5, <1>6, ZenonT(30) DEF StreamsInv

\* Something happens to the descriptor of an open socket.
LEMMA DescriptorStep ==
  ASSUME SocketsInv, SocketsInv', StreamsInv, NEW s \in Socks, Open(sock[s]),
         \A fd \in Fds : fd # sock[s]._id => file'[fd] = file[fd],
         UNCHANGED <<interrupt_fds_, socket_map_, epoll_fd_, now, inbox, pollvars, svars>>
  PROVE  StreamsInv'
<1>1. UNCHANGED <<sock, interrupt_fds_, socket_map_, inbox, timeout_, current, todo, running>>
  BY DEF pollvars, svars
<1>2. file'[sock[s]._id] # NULL
  BY <1>1 DEF SocketsInv, OwnerInv
<1>3. \A fd \in Fds : file'[fd] = NULL => file[fd] = NULL
  BY <1>2
<1>4. (current = NULL => running' = NULL) /\ ("in" \in todo' => running' = NULL)
  BY <1>1 DEF StreamsInv, CurrentInv
<1>. QED
  BY <1>1, <1>3, <1>4, QuietStep

\* Reading and writing change the file alone.
LEMMA TransferSteps ==
  ASSUME SocketsInv, SocketsInv', StreamsInv, NEW s \in Socks, Read(s) \/ Write(s)
  PROVE  StreamsInv'
<1>1. Open(sock[s]) /\ file \in [Fds -> File \cup {NULL}]
  BY SocketTypes DEF Read, Write
<1>2. \A fd \in Fds : fd # sock[s]._id => file'[fd] = file[fd]
  BY <1>1 DEF Read, Write
<1>. QED
  BY <1>1, <1>2, DescriptorStep DEF Read, Write

\* So does the peer.
LEMMA PeerStep ==
  ASSUME SocketsInv, SocketsInv', StreamsInv, NEW fd \in Fds, PeerActs(fd)
  PROVE  StreamsInv'
<1>1. PICK s \in Socks : sock[s]._id = fd
  BY DEF PeerActs
<1>2. Open(sock[s]) /\ file \in [Fds -> File \cup {NULL}]
  BY <1>1, SocketTypes DEF Open
<1>3. PICK f : Becomes(fd, f)
  BY ZenonT(30) DEF PeerActs
<1>4. \A g \in Fds : g # sock[s]._id => file'[g] = file[g]
  BY <1>1, <1>2, <1>3 DEF Becomes
<1>. QED
  BY <1>2, <1>3, <1>4, DescriptorStep DEF Becomes

\* A new socket with or without a descriptor.
LEMMA NewSteps ==
  ASSUME SocketsInv, SocketsInv', StreamsInv, NEW s \in Socks,
         \/ \E fd \in Fds, kind \in Kinds : OpenFile(s, fd, kind)
         \/ Connect(s) \/ LookupFails(s)
  PROVE  StreamsInv'
<1>. USE SocketTypes
<1>1. (current = NULL => running = NULL) /\ ("in" \in todo => running = NULL)
  BY DEF StreamsInv, CurrentInv
<1>2. ASSUME NEW fd \in Fds, NEW kind \in Kinds, OpenFile(s, fd, kind) PROVE StreamsInv'
  <2>. DEFINE r == [NewSocket(kind, FALSE) EXCEPT !._id = fd]
  <2>1. /\ r \in SocketObject /\ r._id = fd /\ r._handlerMask = {} /\ ~r._handler
        /\ r._canActivateHandlers /\ (r.kind = "out" => r._closedRead) /\ NewFile(kind) \in File
    BY NewTypes, ZenonT(30) DEF NewSocket
  <2>2. file[fd] = NULL /\ ~Open(sock[s]) /\ current # s
    BY <1>2 DEF OpenFile, LowestFds, FreeFds
  <2>3. file' = [file EXCEPT ![fd] = NewFile(kind)] /\ sock' = [sock EXCEPT ![s] = r]
    BY <1>2 DEF OpenFile
  <2>4. UNCHANGED <<interrupt_fds_, socket_map_, inbox, timeout_, current, todo, running>>
    BY <1>2 DEF OpenFile, pollvars
  <2>. HIDE DEF r
  <2>5. \A g \in Fds : file'[g] = NULL => file[g] = NULL
    BY <2>1, <2>2, <2>3, ZenonT(30)
  <2>. QED
    BY <1>1, <2>1, <2>2, <2>3, <2>4, <2>5, NewSocketStep, ZenonT(30)
<1>3. ASSUME NEW r \in SocketObject, sock' = [sock EXCEPT ![s] = r], ~Open(r), ~Open(sock[s]),
             r._handlerMask = {}, ~r._handler, r._canActivateHandlers, r.kind = "socket",
             current # s, UNCHANGED <<ehvars, current, todo, running>>
      PROVE  StreamsInv'
  <2>1. UNCHANGED <<interrupt_fds_, socket_map_, inbox, timeout_, file>>
    BY <1>3, ZenonT(30) DEF ehvars, pollvars
  <2>. QED
    BY <1>1, <1>3, <2>1, NewSocketStep, ZenonT(30)
<1>4. CASE Connect(s)
  <2>. DEFINE r == NewSocket("socket", TRUE)
  <2>1. /\ r \in SocketObject /\ ~Open(r) /\ r._handlerMask = {} /\ ~r._handler
        /\ r._canActivateHandlers /\ r.kind = "socket"
    BY NewTypes, SocketTypes DEF NewSocket, SocketObject, Open
  <2>2. sock' = [sock EXCEPT ![s] = r]
    BY <1>4 DEF Connect
  <2>. HIDE DEF r
  <2>. QED
    BY <1>3, <1>4, <2>1, <2>2, ZenonT(30) DEF Connect
<1>5. CASE LookupFails(s)
  <2>1. /\ Forgotten \in SocketObject /\ ~Open(Forgotten) /\ Forgotten._handlerMask = {}
        /\ ~Forgotten._handler /\ Forgotten._canActivateHandlers /\ Forgotten.kind = "socket"
    <3>1. Forgotten \in SocketObject /\ Forgotten._id = -1
      BY DEF Forgotten, NewSocket, SocketObject, Open
    <3>2. /\ Forgotten._handlerMask = {} /\ Forgotten._handler = FALSE
          /\ Forgotten._canActivateHandlers = TRUE /\ Forgotten.kind = "socket"
      BY DEF Forgotten, NewSocket
    <3>. QED
      BY <3>1, <3>2 DEF Open
  <2>2. ~Open(sock[s]) /\ current # s /\ sock' = [sock EXCEPT ![s] = Forgotten]
    BY <1>5, SocketsAssumption, ZenonT(30) DEF LookupFails, SocketObject
  <2>. QED
    BY <1>3, <1>5, <2>1, <2>2, ZenonT(30) DEF LookupFails
<1>. QED
  BY <1>2, <1>4, <1>5

\* The descriptor is there: the handlers are activated.
LEMMA LookupDoneStep ==
  ASSUME SocketsInv, StreamsInv, NEW s \in Socks, NEW fd \in Fds, LookupDone(s, fd)
  PROVE  StreamsInv'
<1>. DEFINE r == [sock[s] EXCEPT !._id = fd, !.lookup = FALSE]
            result == ActivateHandlers(s, r)
<1>1. /\ r \in SocketObject /\ r._id = fd /\ ~r.lookup /\ r._handlerMask = sock[s]._handlerMask
      /\ r.kind = sock[s].kind /\ r._canActivateHandlers = sock[s]._canActivateHandlers
      /\ r._closedRead = sock[s]._closedRead
  BY SocketTypes DEF SocketObject, Open
<1>2. file[fd] = NULL /\ sock[s].lookup /\ ~Open(sock[s]) /\ current = NULL
  BY SocketTypes DEF LookupDone, LowestFds, FreeFds, SocketObject
<1>3. Does(s, result) /\ UNCHANGED <<current, todo, running, timeout_>>
  BY DEF LookupDone
<1>4. \A g \in Fds : file'[g] = NULL => file[g] = NULL
  BY <1>2, SocketTypes DEF LookupDone
<1>5. Outcome(r, result) /\ Carries(r, result)
  BY <1>1, ActivateOutcome, MethodsCarry
<1>. HIDE DEF r
<1>6. current # s /\ current' # s /\ r._canActivateHandlers
  BY <1>1, <1>2, <1>3, StreamFacts, SocketsAssumption, ZenonT(30)
<1>7. CommandsFor(fd) = {} /\ socket_map_[fd] = NULL
  <2>1. MessagesFor(fd) = {}
    BY <1>2, FreeHasNoCommand, ZenonT(30)
  <2>2. socket_map_[fd] = NULL
    BY <1>2, ZenonT(30) DEF StreamsInv, PortInv
  <2>3. CommandsFor(fd) = {}
    BY <2>1, ZenonT(30) DEF CommandsFor, Range, MessagesFor
  <2>. QED
    BY <2>2, <2>3
<1>8. ClosesMask(r) /\ Open(r)
  BY <1>1, SocketTypes, StreamFacts, ZenonT(30) DEF ClosesMask, Reads, Open
<1>9. Activates(s, r, CommandsFor(fd), socket_map_[fd], EventsFor(s), current' = s, EndsNow(s)')
  BY <1>6, <1>7, <1>8 DEF Activates
<1>10. Preserves(s, result, CommandsFor(fd), socket_map_[fd], EventsFor(s), current' = s, EndsNow(s)')
  BY <1>1, <1>6, <1>8, <1>9, ActivatePreserves, ZenonT(30)
<1>. HIDE DEF result
<1>11. Returns(s, r, result)
  BY <1>1, <1>3, <1>5, <1>10, ZenonT(30) DEF Returns
<1>12. Moves(s)
  BY <1>2, <1>3 DEF Moves, StreamsInv, CurrentInv
<1>13. r.kind = "out" => r._closedRead
  BY <1>1, StreamFacts, ZenonT(30)
<1>. QED
  BY <1>1, <1>2, <1>4, <1>6, <1>11, <1>12, <1>13, ReturnsInv, ZenonT(30)

-----------------------------------------------------------------------------
(* _multiplex                                                              *)

\* The data is looked at first, and the other events stay.
LEMMA MultiplexFacts ==
  ASSUME SocketsInv, StreamsInv, NEW s \in Socks, NEW e, Multiplexes(s, e)
  PROVE  /\ current = s /\ current' = s /\ running = NULL /\ "in" \notin todo'
         /\ todo' = todo \ {e}
         /\ e \notin Ending => (EndsNow(s)' <=> EndsNow(s))
<1>1. /\ current = s /\ running = NULL /\ e \in todo /\ todo' = todo \ {e} /\ current' = s
      /\ \A i, j \in DOMAIN EventOrder : EventOrder[i] \in todo /\ EventOrder[j] = e => j <= i
  BY DEF Multiplexes
<1>2. /\ DOMAIN EventOrder = 1..4 /\ EventOrder[1] = "in" /\ EventOrder[2] = "out"
      /\ EventOrder[3] = "error" /\ EventOrder[4] = "close"
  BY DEF EventOrder
<1>3. e \in {"in", "out", "error", "close"}
  BY <1>1 DEF StreamsInv, CurrentInv
<1>4. "in" \in todo => e = "in"
  <2>1. \A j \in 1..4 : EventOrder[1] \in todo /\ EventOrder[j] = e => j <= 1
    BY <1>1, <1>2
  <2>. QED
    BY <1>2, <1>3, <2>1
<1>. QED
  BY <1>1, <1>4 DEF EndsNow

\* An event makes the socket call a method.
LEMMA MultiplexReturns ==
  ASSUME SocketsInv, StreamsInv, NEW s \in Socks, NEW e, Multiplexes(s, e), Elsewhere,
         NEW r \in SocketObject, NEW result, Outcome(r, result), Carries(r, result), Does(s, result),
         r._id = sock[s]._id, r._canActivateHandlers = sock[s]._canActivateHandlers,
         r.lookup = sock[s].lookup, r.kind = "out" => r._closedRead,
         Preserves(s, result, CommandsFor(sock[s]._id), socket_map_[sock[s]._id], EventsFor(s),
                   current = s, EndsNow(s)')
  PROVE  StreamsInv'
<1>1. /\ current = s /\ current' = s /\ "in" \notin todo' /\ todo' = todo \ {e}
      /\ NULL \notin Socks /\ UNCHANGED timeout_
  BY MultiplexFacts, SocketsAssumption, ZenonT(30) DEF Elsewhere
<1>2. Moves(s)
  <2>1. current' \in {current, NULL} /\ current' # NULL /\ todo' \subseteq todo
    BY <1>1, ZenonT(30)
  <2>. QED
    BY <1>1, <2>1, ZenonT(30) DEF Moves
<1>3. (current' = s) = (current = s)
  BY <1>1, ZenonT(30)
<1>4. Returns(s, r, result)
  BY <1>3, ZenonT(30) DEF Returns
<1>5. /\ ~r._canActivateHandlers <=> current' = s
      /\ \A fd \in Fds : file'[fd] = NULL => file[fd] = NULL
  BY <1>1, StreamFacts, ZenonT(30) DEF Elsewhere
<1>. QED
  BY <1>2, <1>4, <1>5, ReturnsInv, ZenonT(30)

\* The in, out and error bits of _multiplex.
LEMMA EventSteps ==
  ASSUME SocketsInv, StreamsInv, NEW s \in Socks, InEvent(s) \/ OutEvent(s) \/ ErrorEvent(s)
  PROVE  StreamsInv'
<1>1. ASSUME NEW e \in {"in", "out"}, Multiplexes(s, e), UNCHANGED <<ehvars, sock>>
      PROVE  StreamsInv'
  <2>1. UNCHANGED <<sock, interrupt_fds_, socket_map_, inbox, timeout_, file>>
    BY <1>1 DEF ehvars, pollvars
  <2>2. /\ current' = current /\ current # NULL /\ todo' = todo \ {e} /\ "in" \notin todo'
    BY <1>1, MultiplexFacts, SocketsAssumption
  <2>3. todo \cap Ending \subseteq todo'
    BY <2>2 DEF Ending
  <2>. QED
    BY <2>1, <2>2, <2>3, QuietStep
<1>2. CASE InEvent(s)
  BY <1>1, <1>2 DEF InEvent
<1>3. ASSUME NEW e, Multiplexes(s, e), Does(s, CloseSocket(s, sock[s])), Elsewhere
      PROVE  StreamsInv'
  <2>1. Preserves(s, CloseSocket(s, sock[s]), CommandsFor(sock[s]._id),
                  socket_map_[sock[s]._id], EventsFor(s), current = s, EndsNow(s)')
    BY StreamFacts, ClosePreserves, ZenonT(30)
  <2>2. Outcome(sock[s], CloseSocket(s, sock[s])) /\ Carries(sock[s], CloseSocket(s, sock[s]))
    BY StreamFacts, CloseOutcome, MethodsCarry, ZenonT(30)
  <2>. QED
    BY <1>3, <2>1, <2>2, StreamFacts, MultiplexReturns, ZenonT(30)
<1>4. CASE ErrorEvent(s)
  BY <1>3, <1>4, ZenonT(30) DEF ErrorEvent
<1>5. CASE OutEvent(s)
  <2>1. CASE "out" \notin sock[s]._handlerMask
    BY <1>1, <1>5, <2>1, ZenonT(30) DEF OutEvent
  <2>2. CASE "out" \in sock[s]._handlerMask
    <3>. PICK mask : mask = sock[s]._handlerMask \ {"out"}
      BY ZenonT(30)
    <3>1. /\ Multiplexes(s, "out") /\ Elsewhere /\ Does(s, SetHandlerMask(s, sock[s], mask))
      BY <1>5, <2>2, ZenonT(30) DEF OutEvent
    <3>2. mask \in SUBSET {"in", "out", "close"} /\ (Reads(sock[s]) => "close" \in mask)
      BY <2>2, StreamFacts DEF ClosesMask, SocketObject
    <3>3. EndsNow(s)' = EndsNow(s)
      BY <3>1, MultiplexFacts DEF Ending, EndsNow
    <3>4. Preserves(s, SetHandlerMask(s, sock[s], mask), CommandsFor(sock[s]._id),
                    socket_map_[sock[s]._id], EventsFor(s), current = s, EndsNow(s))
      BY <3>2, StreamFacts, SetHandlerPreserves, ZenonT(30)
    <3>5. /\ Outcome(sock[s], SetHandlerMask(s, sock[s], mask))
          /\ Carries(sock[s], SetHandlerMask(s, sock[s], mask))
      BY <3>2, StreamFacts, SetHandlerOutcome, MethodsCarry, ZenonT(30)
    <3>. QED
      BY <3>1, <3>3, <3>4, <3>5, StreamFacts, MultiplexReturns, ZenonT(30)
  <2>. QED
    BY <2>1, <2>2, ZenonT(30)
<1>. QED
  BY <1>2, <1>4, <1>5

\* A server socket accepts a connection, or is closed.
LEMMA ConnectionStep ==
  ASSUME SocketsInv, SocketsInv', StreamsInv, NEW s \in Socks, ConnectionEvent(s)
  PROVE  StreamsInv'
<1>1. /\ Multiplexes(s, "in") /\ current = s /\ current' = s /\ todo' = todo \ {"in"}
      /\ "in" \notin todo' /\ NULL \notin Socks
  BY MultiplexFacts, SocketsAssumption DEF ConnectionEvent
<1>2. todo \cap Ending \subseteq todo'
  BY <1>1 DEF Ending
<1>3. CASE UNCHANGED <<ehvars, sock>>
  <2>1. UNCHANGED <<sock, interrupt_fds_, socket_map_, inbox, timeout_, file>>
    BY <1>3 DEF ehvars, pollvars
  <2>. QED
    BY <1>1, <1>2, <2>1, QuietStep
<1>4. ASSUME NEW c \in Socks, NEW fd \in LowestFds, ~Open(sock[c]),
             sock' = [sock EXCEPT ![c] = [NewSocket("socket", FALSE) EXCEPT !._id = fd]],
             file' = [file EXCEPT ![sock[s]._id].data = FALSE, ![fd] = NewFile("socket")],
             UNCHANGED <<interrupt_fds_, socket_map_, epoll_fd_, now, inbox, pollvars>>
      PROVE  StreamsInv'
  <2>. DEFINE r == [NewSocket("socket", FALSE) EXCEPT !._id = fd]
  <2>1. fd \in Fds /\ file[fd] = NULL
    BY DEF LowestFds, FreeFds
  <2>2. /\ r \in SocketObject /\ r._id = fd /\ r._handlerMask = {} /\ ~r._handler
        /\ r._canActivateHandlers /\ r.kind = "socket"
    BY <2>1, NewTypes, ZenonT(30) DEF NewSocket
  <2>3. sock' = [sock EXCEPT ![c] = r] /\ UNCHANGED timeout_
    BY <1>4 DEF pollvars
  <2>. HIDE DEF r
  <2>4. Open(sock[s]) /\ c # s
    BY <1>1, <1>4 DEF Multiplexes, StreamsInv, CurrentInv
  <2>5. sock'[s] = sock[s]
    BY <2>3, <2>4, SocketTypes
  <2>6. file'[sock[s]._id] # NULL
    BY <2>4, <2>5 DEF SocketsInv, OwnerInv
  <2>7. \A g \in Fds : file'[g] = NULL => file[g] = NULL
    <3>1. file \in [Fds -> File \cup {NULL}]
      BY SocketTypes
    <3>2. \A g \in Fds : g # sock[s]._id /\ g # fd => file'[g] = file[g]
      BY <1>4, <3>1
    <3>. QED
      BY <2>1, <2>6, <3>2
  <2>. QED
    BY <1>1, <1>2, <1>4, <2>1, <2>2, <2>3, <2>4, <2>7, NewSocketStep, ZenonT(30)
<1>5. CASE Does(s, CloseSocket(s, sock[s])) /\ Elsewhere
  <2>1. Preserves(s, CloseSocket(s, sock[s]), CommandsFor(sock[s]._id),
                  socket_map_[sock[s]._id], EventsFor(s), current = s, EndsNow(s)')
    BY StreamFacts, ClosePreserves, ZenonT(30)
  <2>2. Outcome(sock[s], CloseSocket(s, sock[s])) /\ Carries(sock[s], CloseSocket(s, sock[s]))
    BY StreamFacts, CloseOutcome, MethodsCarry, ZenonT(30)
  <2>. QED
    BY <1>1, <1>5, <2>1, <2>2, StreamFacts, MultiplexReturns, ZenonT(30)
<1>. QED
  BY <1>3, <1>4, <1>5, ZenonT(30) DEF ConnectionEvent

\* The end of the input is remembered before it is forgotten as an event.
LEMMA CloseEventStep ==
  ASSUME SocketsInv, StreamsInv, NEW s \in Socks, CloseEvent(s)
  PROVE  StreamsInv'
<1>. PICK r : r = IF IsSocket(sock[s]) /\ Open(sock[s])
                  THEN [sock[s] EXCEPT !._closedRead = TRUE] ELSE sock[s]
  BY ZenonT(30)
<1>. PICK result : result = IF r._closedWrite THEN CloseSocket(s, r) ELSE Quiet(r)
  OBVIOUS
<1>1. Does(s, result) /\ Elsewhere /\ Multiplexes(s, "close") /\ current = s
  BY DEF CloseEvent, Multiplexes
<1>2. /\ r \in SocketObject /\ r._id = sock[s]._id /\ r.kind = sock[s].kind
      /\ r._handler = sock[s]._handler /\ r._handlerMask = sock[s]._handlerMask
      /\ r._canActivateHandlers = sock[s]._canActivateHandlers /\ r.lookup = sock[s].lookup
      /\ sock[s]._closedRead => r._closedRead
  BY SocketTypes DEF SocketObject, Open
<1>3. Reads(r) /\ Open(r) => r._closedRead
  BY SocketTypes DEF Reads, IsSocket, Open, SocketObject
<1>4. /\ ClosesMask(r) /\ (r.kind = "out" => r._closedRead)
      /\ StreamOK(s, sock[s], CommandsFor(r._id), socket_map_[r._id], EventsFor(s), current = s, EndsNow(s))
  BY <1>2, StreamFacts DEF ClosesMask, Reads
<1>5. Reads(r) /\ Open(r) => r._handler
  BY <1>1, <1>2, <1>4 DEF StreamOK, Reads, Open
<1>6. StreamOK(s, r, CommandsFor(r._id), socket_map_[r._id], EventsFor(s), current = s, EndsNow(s)')
  BY <1>2, <1>3, <1>4 DEF StreamOK, ClosesMask, Reads, Open
<1>7. Preserves(s, Quiet(r), CommandsFor(r._id), socket_map_[r._id], EventsFor(s), current = s, EndsNow(s)')
  BY <1>2, <1>4, <1>5, <1>6, QuietPreserves, ZenonT(30)
<1>8. Preserves(s, CloseSocket(s, r), CommandsFor(r._id), socket_map_[r._id], EventsFor(s), current = s, EndsNow(s)')
  BY <1>2, <1>4, ClosePreserves
<1>9. Outcome(r, result) /\ Carries(r, result)
  BY <1>2, CloseOutcome, QuietOutcome, MethodsCarry
<1>10. Preserves(s, result, CommandsFor(sock[s]._id), socket_map_[sock[s]._id], EventsFor(s),
                 current = s, EndsNow(s)')
  BY <1>2, <1>7, <1>8
<1>. QED
  BY <1>1, <1>2, <1>4, <1>9, <1>10, MultiplexReturns, ZenonT(30)

\* The end of _multiplex activates the handlers again.
LEMMA MultiplexEndStep ==
  ASSUME SocketsInv, StreamsInv, NEW s \in Socks, MultiplexEnd(s)
  PROVE  StreamsInv'
<1>. PICK r : r = [sock[s] EXCEPT !._canActivateHandlers = TRUE]
  BY ZenonT(30)
<1>1. /\ Does(s, ActivateHandlers(s, r)) /\ Elsewhere /\ current = s /\ current' = NULL
      /\ running' = NULL /\ todo = {} /\ todo' = {}
  BY DEF MultiplexEnd
<1>2. /\ r \in SocketObject /\ r._id = sock[s]._id /\ r.kind = sock[s].kind
      /\ r._handlerMask = sock[s]._handlerMask /\ r._canActivateHandlers
      /\ r.lookup = sock[s].lookup /\ r._closedRead = sock[s]._closedRead
  BY SocketTypes, ZenonT(30) DEF SocketObject, Open
<1>3. current' # s /\ ~EndsNow(s) /\ ~EndsNow(s)'
  BY <1>1, SocketsAssumption DEF EndsNow
<1>4. /\ ClosesMask(r) /\ (r.kind = "out" => r._closedRead)
      /\ StreamOK(s, sock[s], CommandsFor(r._id), socket_map_[r._id], EventsFor(s), current = s, EndsNow(s))
  BY <1>2, StreamFacts DEF ClosesMask, Reads
<1>5. Activates(s, r, CommandsFor(r._id), socket_map_[r._id], EventsFor(s), current' = s, EndsNow(s)')
  BY <1>1, <1>2, <1>3, <1>4 DEF Activates, StreamOK, Reads, Open
<1>6. Preserves(s, ActivateHandlers(s, r), CommandsFor(r._id), socket_map_[r._id], EventsFor(s),
                current' = s, EndsNow(s)')
  <2>1. CASE Open(r)
    BY <1>2, <1>5, <2>1, ActivatePreserves, ZenonT(30)
  <2>2. CASE ~Open(r)
    <3>1. ActivateHandlers(s, r) = Quiet(r)
      BY <2>2 DEF ActivateHandlers
    <3>2. StreamOK(s, r, CommandsFor(r._id), socket_map_[r._id], EventsFor(s), current' = s, EndsNow(s)')
      BY <1>4, <2>2 DEF StreamOK, ClosesMask
    <3>. QED
      BY <1>2, <1>4, <2>2, <3>1, <3>2, QuietPreserves
  <2>. QED
    BY <2>1, <2>2
<1>7. Outcome(r, ActivateHandlers(s, r)) /\ Carries(r, ActivateHandlers(s, r))
  BY <1>2, ActivateOutcome, MethodsCarry
<1>8. Returns(s, r, ActivateHandlers(s, r))
  BY <1>1, <1>6, <1>7 DEF Returns
<1>9. Moves(s)
  BY <1>1 DEF Moves, Elsewhere
<1>10. \A fd \in Fds : file'[fd] = NULL => file[fd] = NULL
  BY <1>1 DEF Elsewhere
<1>. QED
  BY <1>2, <1>3, <1>4, <1>8, <1>9, <1>10, ReturnsInv, ZenonT(30)

\* The isolate takes an event: what it says is looked at next.
LEMMA ReceiveStep ==
  ASSUME SocketsInv, StreamsInv, NEW s \in Socks, Receive(s)
  PROVE  StreamsInv'
<1>. PICK m, evs, r : m = Head(inbox) /\ evs = EventsFor(s)
                      /\ r = [sock[s] EXCEPT !._canActivateHandlers = FALSE]
  BY ZenonT(30)
<1>1. /\ current = NULL /\ current' = s /\ m.port = s /\ todo' = m.message
      /\ sock' = [sock EXCEPT ![s] = r]
      /\ UNCHANGED <<interrupt_fds_, socket_map_, file, timeout_, running>>
  BY DEF Receive, pollvars
<1>2. /\ inbox \in Seq(Event) /\ m \in Event /\ inbox' \in Seq(Event)
      /\ Range(inbox) = Range(inbox') \cup {m}
  BY TailRange DEF Receive, StreamsInv, PortInv
<1>3. /\ r \in SocketObject /\ r._id = sock[s]._id /\ r.kind = sock[s].kind
      /\ r._handler = sock[s]._handler /\ r._handlerMask = sock[s]._handlerMask
      /\ ~r._canActivateHandlers /\ r.lookup = sock[s].lookup /\ r._closedRead = sock[s]._closedRead
  BY SocketTypes, ZenonT(30) DEF SocketObject, Open
<1>4. sock'[s] = r /\ \A t \in Socks \ {s} : sock'[t] = sock[t]
  BY <1>1, SocketTypes, ZenonT(30)
<1>5. Open(sock[s]) /\ ~r.lookup /\ NULL \notin Socks
  <2>1. Open(sock[s])
    BY <1>1, <1>2 DEF StreamsInv, PortInv
  <2>. QED
    BY <1>3, <2>1, SocketTypes, SocketsAssumption DEF SocketObject
<1>6. \A k \in Range(inbox) : k.port \in Socks
  <2>1. \A k \in Range(inbox) : k \in Event
    BY <1>2 DEF Range
  <2>. QED
    BY <2>1 DEF Event
<1>7. PortInv'
  <2>1. \A t \in Socks : sock'[t]._id = sock[t]._id
    BY <1>3, <1>4, ZenonT(30)
  <2>. QED
    BY <1>1, <1>2, <1>6, <2>1 DEF StreamsInv, PortInv, Open
<1>8. CurrentInv'
  <2>1. running' = NULL /\ Open(sock'[current'])
    BY <1>1, <1>3, <1>4, <1>5 DEF StreamsInv, CurrentInv, Open
  <2>2. \A t \in Socks : /\ ~sock'[t]._canActivateHandlers <=> current' = t
                         /\ current' = t => ~sock'[t].lookup
    BY <1>1, <1>3, <1>4, <1>5, ZenonT(30) DEF StreamsInv, CurrentInv
  <2>3. todo' \subseteq {"in", "out", "error", "close"}
    BY <1>1, <1>2 DEF Event
  <2>. QED
    BY <1>1, <1>5, <2>1, <2>2, <2>3 DEF CurrentInv
<1>9. OutputsEnded'
  <2>1. \A t \in Socks : sock'[t].kind = sock[t].kind /\ sock'[t]._closedRead = sock[t]._closedRead
    BY <1>3, <1>4, ZenonT(30)
  <2>. QED
    BY <2>1 DEF StreamsInv, OutputsEnded
<1>10. ASSUME NEW t \in Socks \ {s} PROVE StreamAt(t)'
  <2>1. EventsFor(t)' = EventsFor(t)
    BY <1>1, <1>2 DEF EventsFor
  <2>2. Same(t)
    BY <1>1, <1>4, <1>5, <2>1 DEF Same, EndsNow, CommandsFor
  <2>. QED
    BY <2>2, SameStream DEF StreamsInv
<1>11. StreamAt(s)'
  <2>. PICK evs2, commands, sd : /\ evs2 = EventsFor(s)' /\ commands = CommandsFor(r._id)
                                 /\ sd = socket_map_[r._id]
    OBVIOUS
  <2>1. evs = evs2 \cup {m}
    BY <1>1, <1>2 DEF EventsFor
  <2>2. StreamOK(s, sock[s], commands, sd, evs, FALSE, FALSE)
    <3>1. (current = s) = FALSE /\ EndsNow(s) = FALSE
      BY <1>1, <1>5 DEF EndsNow
    <3>. QED
      BY <1>3, <3>1, StreamFacts, ZenonT(30)
  <2>3. StreamOK(s, r, commands, sd, evs2, TRUE, EndsNow(s)')
    <3>1. EndsNow(s)' <=> m.message \cap Ending # {}
      BY <1>1 DEF EndsNow
    <3>. QED
      BY <1>3, <2>1, <2>2, <3>1 DEF StreamOK, Reads, Open
  <2>4. /\ sock'[s] = r /\ CommandsFor(sock[s]._id)' = commands
        /\ socket_map_'[sock'[s]._id] = sd /\ (current' = s) = TRUE
    BY <1>1, <1>3, <1>4 DEF CommandsFor
  <2>. QED
    BY <2>3, <2>4, ZenonT(30) DEF StreamAt
<1>12. timeout_' = kInfinityTimeout
  BY <1>1 DEF StreamsInv
<1>. QED
  BY <1>7, <1>8, <1>9, <1>10, <1>11, <1>12 DEF StreamsInv

-----------------------------------------------------------------------------
(* The event handler.                                                      *)

\* When GetPollEvents marks the end of the input it reports it, as a close or
\* as an error.
LEMMA MarkedIsReported ==
  ASSUME NEW fd \in Fds, file[fd] \in File, NEW sd, NEW reported
  PROVE  /\ GetPollEvents(fd, sd, reported) \subseteq {"in", "out", "error", "close"}
         /\ "kClosedRead" \in MarkedClosed(fd, sd, reported) =>
              GetPollEvents(fd, sd, reported) \cap Ending # {}
<1>. PICK ins : ins = InEvents(fd, sd, reported)
  OBVIOUS
<1>1. file[fd].data \in BOOLEAN
  BY DEF File
<1>2. ins \in {{}, {"in"}, {"error"}, {"close"}}
  BY <1>1 DEF InEvents
<1>. PICK readable : readable = IF PipeEnded(sd, reported) THEN {"close"} ELSE ins
  BY ZenonT(30)
<1>3. readable \in {{}, {"in"}, {"error"}, {"close"}}
  BY <1>2
<1>4. "listen" \notin sd.mask =>
        GetPollEvents(fd, sd, reported) \in {readable, {"error"}, readable \cup {"out"}}
  BY DEF GetPollEvents
<1>5. "listen" \in sd.mask =>
        /\ GetPollEvents(fd, sd, reported) \subseteq {"in", "error", "close"}
        /\ "kClosedRead" \notin MarkedClosed(fd, sd, reported)
  BY DEF GetPollEvents, ListenEvents, MarkedClosed
<1>6. "kClosedRead" \in MarkedClosed(fd, sd, reported) => readable \in {{"error"}, {"close"}}
  BY <1>2 DEF MarkedClosed
<1>. QED
  BY <1>3, <1>4, <1>5, <1>6, ZenonT(30) DEF Ending

\* An event of a descriptor is posted to the socket that owns it.
LEMMA HandleEventStep ==
  ASSUME SocketsInv, StreamsInv, NEW e \in events, HandleEvent(e), UNCHANGED svars
  PROVE  StreamsInv'
<1>. PICK fd, sd, new, mask, port :
       /\ fd = e.fd /\ sd = socket_map_[fd] /\ new = socket_map_'[fd]
       /\ mask = GetPollEvents(fd, sd, e.events) /\ port = sd.port
  OBVIOUS
<1>. PICK flags : flags = MarkedClosed(fd, sd, e.events)
  OBVIOUS
<1>1. UNCHANGED <<interrupt_fds_, file, timeout_, sock, current, todo, running>>
  BY DEF HandleEvent, svars
<1>2. /\ fd \in Fds /\ sd \in SocketData /\ sd # NULL /\ port # NoPort /\ file[fd] \in File
      /\ socket_map_ \in [Fds -> SocketData \cup {NULL}]
  BY ZenonT(30) DEF SocketsInv, SocketsTypeOK, EventInv, EpollInv, Tracked
<1>3. /\ mask \subseteq {"in", "out", "error", "close"}
      /\ "kClosedRead" \in flags => mask \cap Ending # {}
  BY <1>2, MarkedIsReported
<1>. DEFINE marked == [sd EXCEPT !.flags = @ \cup flags]
            off == [marked EXCEPT !.tracked = FALSE]
<1>4. socket_map_' = [socket_map_ EXCEPT ![fd] = marked] \/ socket_map_' = [socket_map_ EXCEPT ![fd] = off]
  BY DEF HandleEvent
<1>5. /\ marked.port = port /\ marked.flags = sd.flags \cup flags /\ marked # NULL
      /\ off.port = port /\ off.flags = sd.flags \cup flags /\ off # NULL
  <2>1. flags \subseteq {"kClosedRead", "kClosedWrite"}
    BY DEF MarkedClosed
  <2>2. marked \in SocketData /\ off \in SocketData
    BY <1>2, <2>1, ZenonT(30) DEF SocketData
  <2>. QED
    BY <1>2, <2>2, SocketsAssumption, ZenonT(30) DEF SocketData
<1>6. inbox' = IF mask = {} THEN inbox ELSE Posted(port, mask)
  BY DEF HandleEvent
<1>. HIDE DEF marked, off
<1>7. /\ new.port = port /\ new.flags = sd.flags \cup flags /\ new # NULL
      /\ \A g \in Fds \ {fd} : socket_map_'[g] = socket_map_[g]
  BY <1>2, <1>4, <1>5
<1>8. port \in Socks => sock[port]._id = fd
  BY <1>2 DEF StreamsInv, PortInv
<1>9. port \in Socks \cup {ClosedPort} /\ ClosedPort \notin Socks /\ -1 \notin Fds /\ NoPort \notin Socks
  <2>1. port \in Socks \cup {ClosedPort}
    BY <1>2, ZenonT(30) DEF SocketData
  <2>2. ClosedPort \notin Socks /\ NoPort \notin Socks
    BY SocketsAssumption, ZenonT(30)
  <2>3. -1 \notin Fds
    BY EventHandlerAssumption
  <2>. QED
    BY <2>1, <2>2, <2>3
<1>. DEFINE event == [port |-> port, message |-> mask]
<1>10. /\ inbox \in Seq(Event)
       /\ inbox' \in Seq(Event)
       /\ port \in Socks /\ mask # {} => Range(inbox') = Range(inbox) \cup {event}
       /\ ~(port \in Socks /\ mask # {}) => Range(inbox') = Range(inbox)
  <2>1. inbox \in Seq(Event)
    BY ZenonT(30) DEF StreamsInv, PortInv
  <2>2. CASE port \in Socks /\ mask # {}
    <3>1. event \in Event
      BY <1>3, <2>2 DEF Event
    <3>2. inbox' = Append(inbox, event)
      BY <1>2, <1>6, <1>9, <2>2 DEF Posted
    <3>. HIDE DEF event
    <3>. QED
      BY <2>1, <2>2, <3>1, <3>2, AppendRange, ZenonT(30)
  <2>3. CASE ~(port \in Socks /\ mask # {})
    BY <1>6, <1>9, <2>1, <2>3, ZenonT(30) DEF Posted
  <2>. QED
    BY <2>1, <2>2, <2>3, ZenonT(30)
<1>11. event.port = port /\ event.message = mask
  BY ZenonT(30)
<1>. HIDE DEF event
<1>12. PortInv'
  <2>1. \A m \in Range(inbox') : Open(sock'[m.port])
    BY <1>1, <1>2, <1>8, <1>9, <1>10, <1>11 DEF StreamsInv, PortInv, Open
  <2>2. \A g \in Fds : /\ file'[g] = NULL => socket_map_'[g] = NULL
                       /\ socket_map_'[g] # NULL /\ socket_map_'[g].port \in Socks =>
                            sock'[socket_map_'[g].port]._id = g
    BY <1>1, <1>2, <1>7, <1>8, SocketsAssumption DEF StreamsInv, PortInv
  <2>3. \A c \in Range(interrupt_fds_') : c.port \in Socks => sock'[c.port]._id = c.id
    BY <1>1, ZenonT(30) DEF StreamsInv, PortInv
  <2>. QED
    BY <1>10, <2>1, <2>2, <2>3, ZenonT(30) DEF PortInv
<1>13. CurrentInv' /\ OutputsEnded' /\ timeout_' = kInfinityTimeout
  BY <1>1, ZenonT(30) DEF StreamsInv, CurrentInv, OutputsEnded
<1>14. ASSUME NEW t \in Socks, sock[t]._id # fd PROVE StreamAt(t)'
  <2>1. EventsFor(t)' = EventsFor(t)
    BY <1>8, <1>10, <1>11, <1>14 DEF EventsFor
  <2>2. Same(t)
    BY <1>1, <1>7, <1>14, <2>1, ZenonT(30) DEF Same, EndsNow, CommandsFor
  <2>. QED
    BY <2>2, SameStream DEF StreamsInv
<1>15. ASSUME NEW t \in Socks, sock[t]._id = fd PROVE StreamAt(t)'
  <2>. PICK evs, evs2, commands, cur, ends :
         /\ evs = EventsFor(t) /\ evs2 = EventsFor(t)' /\ commands = CommandsFor(fd)
         /\ cur = (current = t) /\ ends = EndsNow(t)
    BY ZenonT(30)
  <2>1. StreamOK(t, sock[t], commands, sd, evs, cur, ends)
    BY <1>15, StreamFacts, ZenonT(30)
  <2>2. evs \subseteq evs2 /\ (port = t /\ mask # {} => event \in evs2)
    BY <1>10, <1>11, ZenonT(30) DEF EventsFor
  <2>3. StreamOK(t, sock[t], commands, new, evs2, cur, ends)
    <3>1. "kClosedRead" \in flags => mask # {} /\ event.message \cap Ending # {}
      BY <1>3, <1>11, ZenonT(30)
    <3>2. Reads(sock[t]) /\ Open(sock[t]) => sock[t]._handlerMask # {} /\ sd.port = t
      BY <1>2, <2>1 DEF StreamOK
    <3>. QED
      BY <1>2, <1>7, <2>1, <2>2, <3>1, <3>2, ZenonT(30) DEF StreamOK
  <2>4. /\ sock'[t] = sock[t] /\ CommandsFor(sock[t]._id)' = commands
        /\ socket_map_'[sock'[t]._id] = new /\ (current' = t) = cur /\ EndsNow(t)' = ends
    BY <1>1, <1>15, ZenonT(30) DEF CommandsFor, EndsNow
  <2>. QED
    BY <2>3, <2>4, ZenonT(30) DEF StreamAt
<1>. QED
  BY <1>12, <1>13, <1>14, <1>15 DEF StreamsInv

\* The event handler reads a command.
LEMMA ReadStreams ==
  ASSUME SocketsInv, StreamsInv, GetInterruptMessage, UNCHANGED <<svars, timeout_>>,
         \A g \in Fds \ {msg.id} : socket_map_'[g] = socket_map_[g] /\ file'[g] = file[g],
         file'[msg.id] = NULL => socket_map_'[msg.id] = NULL,
         socket_map_'[msg.id] # NULL /\ socket_map_'[msg.id].port \in Socks =>
           sock[socket_map_'[msg.id].port]._id = msg.id,
         \A t \in Socks : sock[t]._id = msg.id =>
           \A commands \in SUBSET CommandsFor(msg.id) :
             StreamOK(t, sock[t], commands, socket_map_'[msg.id], EventsFor(t), current = t, EndsNow(t))
  PROVE  StreamsInv'
<1>. PICK fd, p, q : fd = msg.id /\ p = Range(interrupt_fds_') /\ q = Range(interrupt_fds_)
  BY ZenonT(30)
<1>1. fd \in Fds /\ UNCHANGED <<sock, current, todo, running, inbox>>
  BY Msg, ZenonT(30) DEF svars, GetInterruptMessage
<1>2. q = p \cup {msg}
  BY TailRange, ZenonT(30) DEF GetInterruptMessage, msg, SocketsInv, SocketsTypeOK
<1>3. PortInv'
  <2>1. \A c \in p : c.port \in Socks => sock'[c.port]._id = c.id
    BY <1>1, <1>2, ZenonT(30) DEF StreamsInv, PortInv
  <2>2. \A g \in Fds : /\ file'[g] = NULL => socket_map_'[g] = NULL
                       /\ socket_map_'[g] # NULL /\ socket_map_'[g].port \in Socks =>
                            sock'[socket_map_'[g].port]._id = g
    BY <1>1, ZenonT(30) DEF StreamsInv, PortInv
  <2>. QED
    BY <1>1, <2>1, <2>2, ZenonT(30) DEF StreamsInv, PortInv
<1>4. CurrentInv' /\ OutputsEnded' /\ timeout_' = kInfinityTimeout
  BY <1>1, ZenonT(30) DEF StreamsInv, CurrentInv, OutputsEnded
<1>5. ASSUME NEW t \in Socks, sock[t]._id # fd PROVE StreamAt(t)'
  <2>1. \A g \in Fds : g # fd => CommandsFor(g)' = CommandsFor(g)
    <3>1. \A g : CommandsFor(g) = {c \in q : c.id = g} /\ CommandsFor(g)' = {c \in p : c.id = g}
      BY ZenonT(30) DEF CommandsFor
    <3>2. ASSUME NEW g \in Fds, g # fd PROVE {c \in p : c.id = g} = {c \in q : c.id = g}
      <4>1. \A c : c.id = g => (c \in p <=> c \in q)
        BY <1>2, <3>2, ZenonT(30)
      <4>. QED
        BY <4>1, ZenonT(30)
    <3>. QED
      BY <3>1, <3>2, ZenonT(30)
  <2>2. Same(t)
    BY <1>1, <1>5, <2>1, ZenonT(30) DEF Same, EndsNow, EventsFor
  <2>. QED
    BY <2>2, SameStream, ZenonT(30) DEF StreamsInv
<1>6. ASSUME NEW t \in Socks, sock[t]._id = fd PROVE StreamAt(t)'
  <2>. PICK commands, evs, cur, ends, new :
         /\ commands = CommandsFor(fd)' /\ evs = EventsFor(t) /\ cur = (current = t)
         /\ ends = EndsNow(t) /\ new = socket_map_'[fd]
    BY ZenonT(30)
  <2>1. commands \in SUBSET CommandsFor(fd)
    BY <1>2, ZenonT(30) DEF CommandsFor
  <2>2. StreamOK(t, sock[t], commands, new, evs, cur, ends)
    BY <1>6, <2>1, ZenonT(30)
  <2>3. /\ sock'[t] = sock[t] /\ CommandsFor(sock[t]._id)' = commands /\ EventsFor(t)' = evs
        /\ socket_map_'[sock'[t]._id] = new /\ (current' = t) = cur /\ EndsNow(t)' = ends
    <3>1. sock'[t] = sock[t] /\ (current' = t) = cur /\ EndsNow(t)' = ends /\ EventsFor(t)' = evs
      BY <1>1, ZenonT(30) DEF EndsNow, EventsFor
    <3>2. sock'[t]._id = fd
      BY <1>6, <3>1, ZenonT(30)
    <3>. QED
      BY <3>1, <3>2, ZenonT(30) DEF CommandsFor
  <2>. QED
    BY <2>2, <2>3, ZenonT(30) DEF StreamAt
<1>. QED
  BY <1>3, <1>4, <1>5, <1>6, ZenonT(30) DEF StreamsInv

\* A socket whose descriptor is closed has given it up before.
LEMMA CloseMessageStep ==
  ASSUME SocketsInv, StreamsInv, CloseMessage, UNCHANGED svars
  PROVE  StreamsInv'
<1>1. /\ GetInterruptMessage /\ UNCHANGED timeout_
      /\ file' = [file EXCEPT ![msg.id] = NULL]
      /\ socket_map_' = [socket_map_ EXCEPT ![msg.id] = NULL]
  BY DEF CloseMessage
<1>2. \A g \in Fds \ {msg.id} : socket_map_'[g] = socket_map_[g] /\ file'[g] = file[g]
  BY <1>1 DEF SocketsInv, SocketsTypeOK
<1>3. msg.id \in Fds /\ socket_map_'[msg.id] = NULL
  BY <1>1, Msg DEF SocketsInv, SocketsTypeOK
<1>4. ClosePending(msg.id)
  <2>1. 1 \in DOMAIN interrupt_fds_ /\ msg = interrupt_fds_[1]
    BY <1>1 DEF GetInterruptMessage, msg, SocketsInv, SocketsTypeOK
  <2>. QED
    BY <2>1 DEF CloseMessage, ClosePending, MessagesFor
<1>5. \A t \in Socks : sock[t]._id # msg.id
  BY <1>3, <1>4, EventHandlerAssumption DEF SocketsInv, OwnerInv, Open
<1>. QED
  BY <1>1, <1>2, <1>3, <1>5, ReadStreams, ZenonT(30)

\* A command that leaves the descriptor open keeps what the SocketData says of
\* the end of the input; it has the port of a mask, or the old one.
LEMMA UpdateStream ==
  ASSUME SocketsInv, StreamsInv, GetInterruptMessage, UNCHANGED <<svars, timeout_>>,
         NEW sd \in SocketData, UpdateEpollInstance(msg.id, sd), file'[msg.id] # NULL,
         \A g \in Fds \ {msg.id} : file'[g] = file[g],
         "kClosedRead" \in sd.flags => "kClosedRead" \in GetSocketData(msg.id).flags,
         \/ sd.port = msg.port /\ msg.data \in Masks
         \/ sd.port = GetSocketData(msg.id).port
  PROVE  StreamsInv'
<1>. PICK fd, old, new : fd = msg.id /\ old = socket_map_[fd] /\ new = socket_map_'[fd]
  OBVIOUS
<1>1. fd \in Fds /\ socket_map_ \in [Fds -> SocketData \cup {NULL}] /\ NULL \notin SocketData
  BY Msg, SocketsAssumption DEF SocketsInv, SocketsTypeOK
<1>. DEFINE on == [sd EXCEPT !.tracked = TRUE]
<1>2. on \in SocketData /\ on.port = sd.port /\ on.flags = sd.flags
  BY ZenonT(30) DEF SocketData
<1>3. socket_map_' = [socket_map_ EXCEPT ![fd] = on] \/ socket_map_' = [socket_map_ EXCEPT ![fd] = sd]
  BY DEF UpdateEpollInstance
<1>. HIDE DEF on
<1>4. /\ new # NULL /\ new.port = sd.port /\ new.flags = sd.flags
      /\ \A g \in Fds \ {fd} : socket_map_'[g] = socket_map_[g]
  BY <1>1, <1>2, <1>3
<1>5. /\ old = NULL => GetSocketData(fd).port = NoPort /\ GetSocketData(fd).flags = {}
      /\ old # NULL => GetSocketData(fd) = old
  BY ZenonT(30) DEF GetSocketData, NewSocketData
<1>6. msg \in Range(interrupt_fds_) /\ msg \in CommandsFor(fd)
  BY TailRange, ZenonT(30) DEF GetInterruptMessage, msg, SocketsInv, SocketsTypeOK, CommandsFor
<1>7. new.port \in Socks => sock[new.port]._id = fd
  <2>1. msg.port \in Socks => sock[msg.port]._id = fd
    BY <1>6, ZenonT(30) DEF StreamsInv, PortInv
  <2>2. old # NULL /\ old.port \in Socks => sock[old.port]._id = fd
    BY <1>1 DEF StreamsInv, PortInv
  <2>. QED
    BY <1>4, <1>5, <2>1, <2>2, SocketsAssumption, ZenonT(30)
<1>8. ASSUME NEW t \in Socks, sock[t]._id = fd, NEW commands \in SUBSET CommandsFor(fd)
      PROVE  StreamOK(t, sock[t], commands, new, EventsFor(t), current = t, EndsNow(t))
  <2>. PICK all, evs, cur, ends : /\ all = CommandsFor(fd) /\ evs = EventsFor(t)
                                  /\ cur = (current = t) /\ ends = EndsNow(t)
    OBVIOUS
  <2>1. StreamOK(t, sock[t], all, old, evs, cur, ends)
    BY <1>8, StreamFacts, ZenonT(30)
  <2>2. StreamOK(t, sock[t], commands, new, evs, cur, ends)
    BY <1>4, <1>5, <1>6, <2>1, ZenonT(30) DEF StreamOK
  <2>. QED
    BY <2>2, ZenonT(30)
<1>. QED
  BY <1>1, <1>4, <1>7, <1>8, ReadStreams, ZenonT(30)

\* The message of close(true).
LEMMA ShutdownWriteStep ==
  ASSUME SocketsInv, StreamsInv, ShutdownWriteMessage, UNCHANGED svars
  PROVE  StreamsInv'
<1>. DEFINE sd == [GetSocketData(msg.id) EXCEPT !.flags = @ \cup {"kClosedWrite"}]
            f == [file[msg.id] EXCEPT !.shut = file[msg.id].kind = "socket"]
<1>1. GetInterruptMessage /\ UpdateEpollInstance(msg.id, sd) /\ UNCHANGED timeout_
  BY DEF ShutdownWriteMessage
<1>2. /\ sd \in SocketData /\ sd.port = GetSocketData(msg.id).port
      /\ "kClosedRead" \in sd.flags => "kClosedRead" \in GetSocketData(msg.id).flags
  BY <1>1, Msg DEF SocketData
<1>3. f \in File /\ file' = [file EXCEPT ![msg.id] = f] /\ msg.id \in Fds
  BY <1>1, Msg, ZenonT(30) DEF File, ShutdownWriteMessage
<1>. HIDE DEF sd, f
<1>4. file'[msg.id] # NULL /\ \A g \in Fds \ {msg.id} : file'[g] = file[g]
  BY <1>3, SocketsAssumption DEF SocketsInv, SocketsTypeOK
<1>. QED
  BY <1>1, <1>2, <1>4, UpdateStream, ZenonT(30)

\* The message of _activateHandlers.
LEMMA SetEventsStep ==
  ASSUME SocketsInv, StreamsInv, SetEventsMessage, UNCHANGED svars
  PROVE  StreamsInv'
<1>. DEFINE sd == [GetSocketData(msg.id) EXCEPT !.port = msg.port, !.mask = msg.data]
<1>1. GetInterruptMessage /\ UpdateEpollInstance(msg.id, sd) /\ UNCHANGED <<timeout_, file>>
  BY DEF SetEventsMessage
<1>2. msg.data \in Masks /\ msg.port \in Socks \cup {ClosedPort}
  BY <1>1, Msg DEF SetEventsMessage, Command, kClose
<1>3. /\ sd \in SocketData /\ sd.port = msg.port
      /\ "kClosedRead" \in sd.flags => "kClosedRead" \in GetSocketData(msg.id).flags
  BY <1>1, <1>2, Msg, ZenonT(30) DEF SocketData
<1>. HIDE DEF sd
<1>4. file'[msg.id] # NULL
  BY <1>1, Msg, SocketsAssumption
<1>. QED
  BY <1>1, <1>2, <1>3, <1>4, UpdateStream

\* The event handler thread: waiting, dispatching and reading the pipe.
LEMMA PollStep ==
  ASSUME SocketsInv, StreamsInv, Poll, UNCHANGED svars
  PROVE  StreamsInv'
<1>1. UNCHANGED <<sock, current, todo, running>>
  BY DEF svars
<1>2. /\ timeout_ = kInfinityTimeout
      /\ current = NULL => running = NULL
      /\ "in" \in todo => running = NULL
  BY DEF StreamsInv, CurrentInv
<1>3. CASE EpollReturns \/ EpollWait
  <2>1. UNCHANGED <<interrupt_fds_, socket_map_, inbox, timeout_, file>>
    BY <1>2, <1>3 DEF EpollReturns, HandleTimeout, EpollWait
  <2>. QED
    BY <1>1, <1>2, <2>1, QuietStep
<1>4. ~TimerMessage
  <2>1. GetInterruptMessage /\ msg.id = -1 => FALSE
    BY Msg, EventHandlerAssumption
  <2>. QED
    BY <2>1 DEF TimerMessage, kTimerId
<1>. QED
  BY <1>3, <1>4, HandleEventStep, ShutdownWriteStep, SetEventsStep, CloseMessageStep DEF Poll

-----------------------------------------------------------------------------
\* No socket has been used at the start.
LEMMA StreamsInitInv == Init => StreamsInv
<1>. SUFFICES ASSUME Init PROVE StreamsInv
  OBVIOUS
<1>1. /\ Forgotten._id = -1 /\ Forgotten._canActivateHandlers /\ ~Forgotten.lookup
      /\ Forgotten._handlerMask = {} /\ Forgotten.kind = "socket"
  BY DEF Forgotten, NewSocket
<1>2. \A s \in Socks : sock[s] = Forgotten
  BY DEF Init
<1>3. Range(interrupt_fds_) = {} /\ Range(inbox) = {} /\ inbox \in Seq(Event)
  BY DEF Init, EHInit, Range
<1>4. PortInv
  BY <1>3 DEF PortInv, Init, EHInit
<1>5. CurrentInv /\ OutputsEnded
  BY <1>1, <1>2, SocketsAssumption DEF Init, CurrentInv, OutputsEnded
<1>6. \A s \in Socks : StreamAt(s)
  BY <1>1, <1>2 DEF StreamAt, StreamOK, Open
<1>. QED
  BY <1>4, <1>5, <1>6 DEF StreamsInv, Init, EHInit

\* Every step of a program that uses streams keeps the invariant.
LEMMA StreamsNextInv ==
  ASSUME Streams PROVE SocketsInv /\ StreamsInv /\ [Next]_vars => StreamsInv'
<1>. SUFFICES ASSUME SocketsInv, SocketsInv', StreamsInv, [Next]_vars PROVE StreamsInv'
  BY SocketsNextInv
<1>1. ASSUME Poll, UNCHANGED svars PROVE StreamsInv'
  BY <1>1, PollStep
<1>2. ASSUME NEW s \in Socks, User(s) PROVE StreamsInv'
  <2>1. ASSUME NEW e \in {"in", "out", "close"}, SetHandler(s, e) \/ ClearHandler(s, e)
        PROVE  StreamsInv'
    BY <2>1, HandlerSteps
  <2>. QED
    BY <1>2, <2>1, NewSteps, CloseSteps, TransferSteps, ZenonT(30) DEF User
<1>3. ASSUME NEW s \in Socks, Lookup(s) PROVE StreamsInv'
  BY <1>3, NewSteps, LookupDoneStep DEF Lookup
<1>4. ASSUME NEW s \in Socks, Close(s) PROVE StreamsInv'
  BY <1>4, CloseSteps
<1>5. ASSUME NEW s \in Socks, Multiplex(s) PROVE StreamsInv'
  BY <1>5, ReceiveStep, EventSteps, ConnectionStep, CloseEventStep, MultiplexEndStep, ZenonT(30)
  DEF Multiplex
<1>6. ASSUME UNCHANGED <<ehvars, sock, current, todo>>, running' \in {running, NULL} PROVE StreamsInv'
  <2>1. UNCHANGED <<sock, interrupt_fds_, socket_map_, inbox, timeout_, file, current, todo>>
    BY <1>6 DEF ehvars, pollvars
  <2>2. (current = NULL => running' = NULL) /\ ("in" \in todo' => running' = NULL)
    BY <1>6, <2>1 DEF StreamsInv, CurrentInv
  <2>. QED
    BY <2>1, <2>2, QuietStep
<1>7. CASE HandlerReturns
  BY <1>6, <1>7 DEF HandlerReturns
<1>8. ASSUME NEW fd \in Fds, PeerActs(fd) PROVE StreamsInv'
  BY <1>8, PeerStep
<1>9. CASE UNCHANGED vars
  BY <1>6, <1>9 DEF vars, svars
<1>. QED
  BY <1>1, <1>2, <1>3, <1>4, <1>5, <1>7, <1>8, <1>9, SocketsAssumption, ZenonT(30) DEF Next

\* The end of a socket's input is reported, if the sockets are used through
\* their streams: once the event handler has seen it, and so polls the socket no
\* more, the socket knows or an event that tells it is waiting or being handled.
THEOREM EndIsReported ==
  ASSUME Streams PROVE Spec => []EndReported
<1>1. SocketsInv /\ StreamsInv => EndReported
  <2>. SUFFICES ASSUME SocketsInv, StreamsInv, NEW s \in Socks, Open(sock[s]), IsSocket(sock[s]),
                       socket_map_[sock[s]._id] # NULL,
                       "kClosedRead" \in socket_map_[sock[s]._id].flags, ~sock[s]._closedRead
                PROVE  EventPending(s)
    BY DEF EndReported
  <2>1. Reads(sock[s])
    BY StreamFacts DEF Reads, IsSocket
  <2>2. EndsNow(s) \/ \E m \in EventsFor(s) : m.message \cap Ending # {}
    BY <2>1, StreamFacts, ZenonT(30) DEF StreamOK
  <2>. QED
    BY <2>2 DEF EndsNow, EventsFor, EventPending, Range
<1>2. Init => SocketsInv /\ StreamsInv
  BY SocketsInitInv, StreamsInitInv
<1>3. SocketsInv /\ StreamsInv /\ [Next]_vars => (SocketsInv /\ StreamsInv)'
  BY SocketsNextInv, StreamsNextInv
<1>. QED
  BY <1>1, <1>2, <1>3, PTL DEF Spec
=============================================================================
