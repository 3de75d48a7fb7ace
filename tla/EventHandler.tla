---------------------------- MODULE EventHandler ----------------------------
(***************************************************************************)
(* The event handler thread of an isolate on Linux: Poll waits in          *)
(* epoll_wait for the descriptors of dart:io, for the next timer and for   *)
(* commands that the isolate writes to a pipe, and posts what happened to  *)
(* the receive ports of the sockets and timers (runtime/bin/               *)
(* eventhandler_linux.cc).  Sockets and Timers add the Dart side.          *)
(*                                                                         *)
(* A port is named by the Dart object that owns it.  Ids of ports are      *)
(* never used again, so all ports that have been closed are ClosedPort.    *)
(***************************************************************************)
EXTENDS Lists

CONSTANTS
  Fds,            \* file descriptors of sockets and pipes
  Stdin,          \* the descriptor STDIN_FILENO, if it is one of them
  NULL,
  NoPort,         \* the port 0 of a SocketData that no message has set up
  ClosedPort,     \* any port that has been closed
  PipeCapacity,   \* messages that fit into the pipe before a write blocks
  IntBits         \* width of the int that epoll_wait takes as timeout

\* Descriptors are not negative (a socket without one has the id -1), and no
\* port has the id 0.
ASSUME EventHandlerAssumption == Fds \subseteq Nat /\ NoPort # ClosedPort

VARIABLES
  interrupt_fds_, \* the messages in the pipe
  socket_map_,    \* the SocketData of each descriptor, or NULL
  timeout_,       \* time for the next timeout
  timeout_port_,
  pc,             \* where Poll is: wait, events or interrupt
  deadline,       \* when epoll_wait gives up
  events,         \* the events that epoll_wait returned and Poll has to handle
  epoll_fd_,      \* the kernel's interest list: events of each descriptor, or NULL
  file,           \* the kernel's open descriptors: [Fds -> state or NULL]
  now,            \* the clock
  inbox           \* messages posted to the isolate, oldest first

kInfinityTimeout == -1
kTimerId == -1

pollvars == <<timeout_, timeout_port_, pc, deadline, events>>
ehvars == <<interrupt_fds_, socket_map_, epoll_fd_, file, now, inbox, pollvars>>

-----------------------------------------------------------------------------
(* The isolate's side: WakeupHandler and ReceivePort.close.                *)

\* A command of the isolate: a timeout, or a mask of events and flags.
InterruptMessage(id, port, data) == [id |-> id, port |-> port, data |-> data]

\* WriteToBlocking waits until the message fits.
PipeHasRoom == Len(interrupt_fds_) < PipeCapacity

\* Renames a port that is being closed wherever it is still known.
Retire(port, closed) == IF port \in closed THEN ClosedPort ELSE port

\* The isolate sends msgs and then closes the ports in closed; the messages
\* that wait at those ports are dropped.
SendData(msgs, closed) ==
  LET sent == interrupt_fds_ \o msgs
  IN  /\ interrupt_fds_' =
           [i \in DOMAIN sent |-> [sent[i] EXCEPT !.port = Retire(@, closed)]]
      /\ socket_map_' =
           [fd \in Fds |-> IF socket_map_[fd] = NULL THEN NULL
                           ELSE [socket_map_[fd] EXCEPT !.port = Retire(@, closed)]]
      /\ timeout_port_' = Retire(timeout_port_, closed)
      /\ inbox' = Remaining(inbox, closed)

\* Posting to a closed port fails, and nobody looks at the result.
Posted(port, message) ==
  IF port \in {NoPort, ClosedPort} THEN inbox
  ELSE Append(inbox, [port |-> port, message |-> message])

-----------------------------------------------------------------------------
(* The kernel (external): what epoll reports for a descriptor.             *)

\* A descriptor of the kernel: whether bytes or connections wait in it, its
\* peer has finished, it is broken, it has room, it was shut down for writing.
NewFile(kind) ==
  [kind |-> kind, data |-> FALSE, eof |-> FALSE, err |-> FALSE,
   room |-> kind # "listen", shut |-> FALSE]

\* The events of a descriptor, asked for or not.
Happening(f) ==
  CASE f.kind = "socket" ->
         (IF f.data \/ f.eof \/ f.err THEN {"EPOLLIN"} ELSE {})
           \cup (IF f.room \/ f.err \/ f.shut THEN {"EPOLLOUT"} ELSE {})
           \cup (IF f.err \/ (f.eof /\ f.shut) THEN {"EPOLLHUP"} ELSE {})
           \cup (IF f.err THEN {"EPOLLERR"} ELSE {})
    [] f.kind = "listen" -> IF f.data THEN {"EPOLLIN"} ELSE {}
    [] f.kind = "in" ->
         (IF f.data THEN {"EPOLLIN"} ELSE {})
           \cup (IF f.eof THEN {"EPOLLHUP"} ELSE {})
    [] f.kind = "out" ->
         (IF f.room THEN {"EPOLLOUT"} ELSE {})
           \cup (IF f.err THEN {"EPOLLERR"} ELSE {})
    [] f.kind = "stdin" -> IF f.data \/ f.eof THEN {"EPOLLIN"} ELSE {}

\* What epoll_wait reports for fd: hangups and errors even if not asked for.
Reported(fd) ==
  IF epoll_fd_[fd] = NULL THEN {}
  ELSE Happening(file[fd]) \cap (epoll_fd_[fd] \cup {"EPOLLHUP", "EPOLLERR"})

ReadyFds == {fd \in Fds : Reported(fd) # {}}

-----------------------------------------------------------------------------
(* SocketData                                                              *)

\* GetSocketData makes one for a descriptor that has none yet.
NewSocketData == [tracked |-> FALSE, port |-> NoPort, mask |-> {}, flags |-> {}]

GetSocketData(fd) == IF socket_map_[fd] = NULL THEN NewSocketData ELSE socket_map_[fd]

\* SocketData::GetPollEvents: the events to ask epoll for.
RequestedEvents(sd) ==
  (IF "in" \in sd.mask /\ "kClosedRead" \notin sd.flags THEN {"EPOLLIN"} ELSE {})
    \cup (IF "out" \in sd.mask /\ "kClosedWrite" \notin sd.flags THEN {"EPOLLOUT"} ELSE {})

\* Registers sd, unless it asks for nothing: an old registration then stays.
UpdateEpollInstance(fd, sd) ==
  IF sd.port # NoPort /\ RequestedEvents(sd) # {}
  THEN /\ epoll_fd_' = [epoll_fd_ EXCEPT ![fd] = RequestedEvents(sd)]
       /\ socket_map_' = [socket_map_ EXCEPT ![fd] = [sd EXCEPT !.tracked = TRUE]]
  ELSE /\ socket_map_' = [socket_map_ EXCEPT ![fd] = sd]
       /\ UNCHANGED epoll_fd_

\* Mutant: the kernel is not told.
RemoveNothing(fd, sd) == epoll_fd_

\* The interest list without a descriptor that is tracked.
RemoveFromEpollInstance(fd, sd) ==
  IF sd.tracked THEN [epoll_fd_ EXCEPT ![fd] = NULL] ELSE epoll_fd_

\* EventHandlerImplementation::GetPollEvents for EPOLLIN: the events for the
\* isolate.  Data first; without data it is a hangup, an error or, as recv
\* (MSG_PEEK) or stdin tell, the end of the input.
InEvents(fd, sd, reported) ==
  CASE "EPOLLIN" \notin reported -> {}
    [] file[fd].data -> {"in"}
    [] ~file[fd].data /\ "EPOLLERR" \in reported -> {"error"}
    [] ~file[fd].data /\ "EPOLLERR" \notin reported ->
         IF \/ "EPOLLHUP" \in reported
            \/ IF "pipe" \in sd.mask THEN fd = Stdin ELSE file[fd].eof
         THEN {"close"} ELSE {}

\* On pipes EPOLLHUP comes without EPOLLIN when there is no more data.
PipeEnded(sd, reported) ==
  "pipe" \in sd.mask /\ "EPOLLIN" \notin reported /\ "EPOLLHUP" \in reported

\* On listening sockets EPOLLIN alone is a connection.
ListenEvents(reported) ==
  LET bad == (IF "EPOLLHUP" \in reported THEN {"close"} ELSE {})
               \cup (IF "EPOLLERR" \in reported THEN {"error"} ELSE {})
  IN  IF "EPOLLIN" \notin reported THEN {} ELSE IF bad # {} THEN bad ELSE {"in"}

\* The events that the isolate is told of.
GetPollEvents(fd, sd, reported) ==
  IF "listen" \in sd.mask THEN ListenEvents(reported)
  ELSE LET readable == IF PipeEnded(sd, reported) THEN {"close"}
                       ELSE InEvents(fd, sd, reported)
       IN  CASE "EPOLLOUT" \notin reported -> readable
             [] "EPOLLOUT" \in reported /\ "EPOLLERR" \in reported -> {"error"}
             [] "EPOLLOUT" \in reported /\ "EPOLLERR" \notin reported -> readable \cup {"out"}

\* The flags that GetPollEvents sets: the end of the input and broken output.
MarkedClosed(fd, sd, reported) ==
  LET ended == \/ PipeEnded(sd, reported)
               \/ "close" \in InEvents(fd, sd, reported)
               \/ /\ "error" \in InEvents(fd, sd, reported)
                  /\ "EPOLLHUP" \in reported
  IN  IF "listen" \in sd.mask THEN {}
      ELSE (IF ended THEN {"kClosedRead"} ELSE {})
             \cup (IF {"EPOLLOUT", "EPOLLERR"} \subseteq reported THEN {"kClosedWrite"} ELSE {})

-----------------------------------------------------------------------------
(* Poll                                                                    *)

EHInit ==
  /\ interrupt_fds_ = <<>>
  /\ socket_map_ = [fd \in Fds |-> NULL]
  /\ timeout_ = kInfinityTimeout /\ timeout_port_ = NoPort
  /\ pc = "wait" /\ deadline = NULL /\ events = {}
  /\ epoll_fd_ = [fd \in Fds |-> NULL]
  /\ file = [fd \in Fds |-> NULL]
  /\ now = 0
  /\ inbox = <<>>

\* The value of n after its conversion to int.
ToInt(n) ==
  LET m == n % 2^IntBits IN IF m < 2^(IntBits - 1) THEN m ELSE m - 2^IntBits

\* HandleTimeout: posts to the timers' port and forgets the timeout.
HandleTimeout ==
  IF timeout_ # kInfinityTimeout /\ timeout_ <= now
  THEN /\ inbox' = Posted(timeout_port_, "timeout")
       /\ timeout_' = kInfinityTimeout
       /\ timeout_port_' = NoPort
  ELSE UNCHANGED <<inbox, timeout_, timeout_port_>>

\* epoll_wait returns; all descriptors here fit into one batch of kMaxEvents.
EpollReturns ==
  /\ pc = "wait"
  /\ interrupt_fds_ # <<>> \/ ReadyFds # {} \/ (deadline # NULL /\ deadline <= now)
  /\ HandleTimeout
  /\ events' = {[fd |-> fd, events |-> Reported(fd)] : fd \in ReadyFds}
  /\ pc' = IF ReadyFds = {} THEN "interrupt" ELSE "events"
  /\ deadline' = NULL
  /\ UNCHANGED <<interrupt_fds_, socket_map_, epoll_fd_, file, now>>

\* One round of the loop of HandleEvents.  The descriptor is taken out of
\* epoll until the isolate asks for its events again.
HandleEvent(e) ==
  LET sd == socket_map_[e.fd]
      event_mask == GetPollEvents(e.fd, sd, e.events)
      marked == [sd EXCEPT !.flags = @ \cup MarkedClosed(e.fd, sd, e.events)]
  IN  /\ pc = "events" /\ e \in events
      /\ events' = events \ {e}
      /\ pc' = IF events = {e} THEN "interrupt" ELSE "events"
      /\ IF event_mask = {}
         THEN /\ socket_map_' = [socket_map_ EXCEPT ![e.fd] = marked]
              /\ UNCHANGED <<epoll_fd_, inbox>>
         ELSE /\ socket_map_' = [socket_map_ EXCEPT ![e.fd] = [marked EXCEPT !.tracked = FALSE]]
              /\ epoll_fd_' = RemoveFromEpollInstance(e.fd, sd)
              /\ inbox' = Posted(sd.port, event_mask)
      /\ UNCHANGED <<interrupt_fds_, timeout_, timeout_port_, deadline, file, now>>

\* HandleInterruptFd reads one message after the other until the pipe is empty.
msg == Head(interrupt_fds_)

GetInterruptMessage ==
  /\ pc = "interrupt"
  /\ interrupt_fds_ # <<>>
  /\ interrupt_fds_' = Tail(interrupt_fds_)
  /\ UNCHANGED <<pc, deadline, events, now, inbox>>

TimerMessage ==
  /\ GetInterruptMessage /\ msg.id = kTimerId
  /\ timeout_' = msg.data
  /\ timeout_port_' = msg.port
  /\ UNCHANGED <<socket_map_, epoll_fd_, file>>

ShutdownWriteMessage ==
  LET sd == GetSocketData(msg.id)
  IN  /\ GetInterruptMessage /\ msg.id # kTimerId /\ msg.data = {"kShutdownWriteCommand"}
      /\ file' = [file EXCEPT ![msg.id].shut = file[msg.id].kind = "socket"]
      /\ UpdateEpollInstance(msg.id, [sd EXCEPT !.flags = @ \cup {"kClosedWrite"}])
      /\ UNCHANGED <<timeout_, timeout_port_>>

CloseMessage ==
  /\ GetInterruptMessage /\ msg.id # kTimerId /\ msg.data = {"kCloseCommand"}
  /\ epoll_fd_' = RemoveFromEpollInstance(msg.id, GetSocketData(msg.id))
  /\ file' = [file EXCEPT ![msg.id] = NULL]
  /\ socket_map_' = [socket_map_ EXCEPT ![msg.id] = NULL]
  /\ UNCHANGED <<timeout_, timeout_port_>>

SetEventsMessage ==
  LET sd == GetSocketData(msg.id)
  IN  /\ GetInterruptMessage /\ msg.id # kTimerId
      /\ msg.data \cap {"kCloseCommand", "kShutdownWriteCommand"} = {}
      /\ UpdateEpollInstance(msg.id, [sd EXCEPT !.port = msg.port, !.mask = msg.data])
      /\ UNCHANGED <<timeout_, timeout_port_, file>>

\* Mutant: a timeout in the past is taken for none.
WaitPastTimeout ==
  LET millis == IF timeout_ = kInfinityTimeout THEN kInfinityTimeout
                ELSE IF timeout_ < now THEN kInfinityTimeout ELSE timeout_ - now
  IN  /\ pc = "interrupt" /\ interrupt_fds_ = <<>>
      /\ deadline' = IF ToInt(millis) < 0 THEN NULL ELSE now + ToInt(millis)
      /\ pc' = "wait"
      /\ UNCHANGED <<interrupt_fds_, socket_map_, timeout_, timeout_port_, events,
                     epoll_fd_, file, now, inbox>>

\* The pipe is empty: GetTimeout and the next call of epoll_wait, which waits
\* for ever if the timeout is negative.
EpollWait ==
  LET millis == IF timeout_ = kInfinityTimeout THEN kInfinityTimeout
                ELSE IF timeout_ < now THEN 0 ELSE timeout_ - now
  IN  /\ pc = "interrupt" /\ interrupt_fds_ = <<>>
      /\ deadline' = IF ToInt(millis) < 0 THEN NULL ELSE now + ToInt(millis)
      /\ pc' = "wait"
      /\ UNCHANGED <<interrupt_fds_, socket_map_, timeout_, timeout_port_, events,
                     epoll_fd_, file, now, inbox>>

Poll ==
  \/ EpollReturns
  \/ \E e \in events : HandleEvent(e)
  \/ TimerMessage
  \/ ShutdownWriteMessage
  \/ CloseMessage
  \/ SetEventsMessage
  \/ EpollWait
=============================================================================
