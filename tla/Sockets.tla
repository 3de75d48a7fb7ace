------------------------------- MODULE Sockets -------------------------------
(***************************************************************************)
(* The sockets of dart:io (runtime/bin/socket_impl.dart) above the event   *)
(* handler: server sockets, connections, the pipes of processes and stdin. *)
(* An isolate registers handlers, which are sent as a mask to the event    *)
(* handler; an event takes the descriptor out of epoll, and _multiplex     *)
(* calls the handlers and registers the mask again.                        *)
(***************************************************************************)
EXTENDS EventHandler

CONSTANTS
  Socks,          \* socket objects
  Users,          \* those the program opens and uses; others are only accepted
  Kinds,          \* kinds of descriptors that are opened
  MaxInbox,       \* bound: handlers are changed while fewer events wait
  Streams         \* are sockets used through their streams only?

VARIABLES
  sock,           \* the objects: fields of _SocketBase
  current,        \* the socket whose events _multiplex handles, or NULL
  todo,           \* the events _multiplex has still to look at
  running         \* the event whose handler runs, or NULL

svars == <<sock, current, todo, running>>
vars == <<ehvars, svars>>

Masks == SUBSET {"in", "out", "close", "listen", "pipe"}

\* What descriptors and SocketData objects are.
File ==
  [kind : Kinds \cup {"socket"}, data : BOOLEAN, eof : BOOLEAN, err : BOOLEAN,
   room : BOOLEAN, shut : BOOLEAN]
SocketData ==
  [tracked : BOOLEAN, port : Socks \cup {NoPort, ClosedPort}, mask : Masks,
   flags : SUBSET {"kClosedRead", "kClosedWrite"}]

\* A NULL pointer is no object, and a socket's port is open.
ASSUME SocketsAssumption ==
  /\ NULL \notin File \cup SocketData
  /\ \A requested \in SUBSET {"EPOLLIN", "EPOLLOUT"} : requested # NULL
  /\ NoPort \notin Socks /\ ClosedPort \notin Socks /\ NULL \notin Socks
  /\ Users \subseteq Socks

\* In the order in which _multiplex looks at them.
EventOrder == <<"in", "out", "error", "close">>

\* A new object; `lookup' is the host name lookup of the constructor.
NewSocket(kind, lookup) ==
  [_id |-> -1, kind |-> kind, lookup |-> lookup, _handler |-> FALSE,
   _handlerMask |-> {}, _canActivateHandlers |-> TRUE,
   _closedRead |-> kind = "out", _closedWrite |-> kind \in {"in", "stdin"}]

Open(r) == r._id # -1
IsSocket(r) == r.kind # "listen"
Flags(r) == CASE r.kind = "listen" -> {"listen"} [] r.kind = "socket" -> {} [] OTHER -> {"pipe"}

-----------------------------------------------------------------------------
(* The methods of _SocketBase, as functions of a socket that return the    *)
(* socket they leave and the messages they send.                           *)

Quiet(r) == [sock |-> r, sends |-> <<>>]

\* _sendToEventHandler opens the receive port if there is none.
SendToEventHandler(s, r, data) ==
  [sock |-> [r EXCEPT !._handler = TRUE],
   sends |-> <<InterruptMessage(r._id, s, data)>>]

\* The mask that _activateHandlers sends.
HandlerData(r) ==
  Flags(r) \cup {e \in r._handlerMask : /\ IsSocket(r) /\ r._closedRead => e # "in"
                                        /\ IsSocket(r) /\ r._closedWrite => e # "out"}

ActivateHandlers(s, r) ==
  IF ~r._canActivateHandlers \/ ~Open(r) THEN Quiet(r)
  ELSE IF r._handlerMask = {} THEN Quiet([r EXCEPT !._handler = FALSE])
  ELSE SendToEventHandler(s, r, HandlerData(r))

\* _setHandler with the mask it computes.  A socket that is only written to
\* closes its port as soon as it waits for nothing.
SetHandlerMask(s, r, mask) ==
  LET set == [r EXCEPT !._handlerMask = mask]
  IN  IF IsSocket(r) /\ r._closedRead /\ mask = {} /\ r._handler
      THEN Quiet([set EXCEPT !._handler = FALSE])
      ELSE ActivateHandlers(s, set)

\* Mutant: the socket keeps its descriptor.
CloseKeepingId(s, r) ==
  IF ~Open(r) THEN Quiet(r)
  ELSE [sock |-> [r EXCEPT !._handler = FALSE],
        sends |-> <<InterruptMessage(r._id, s, {"kCloseCommand"})>>]

\* _close: the event handler closes the descriptor.
CloseSocket(s, r) ==
  IF ~Open(r) THEN Quiet(r)
  ELSE [sock |-> [r EXCEPT !._handler = FALSE, !._id = -1],
        sends |-> <<InterruptMessage(r._id, s, {"kCloseCommand"})>>]

CloseWrite(s, r) ==
  LET closed == [r EXCEPT !._closedWrite = TRUE]
  IN  IF ~Open(r) THEN Quiet(r)
      ELSE IF r._closedRead THEN CloseSocket(s, closed)
      ELSE SendToEventHandler(s, closed, {"kShutdownWriteCommand"})

\* A socket that is closed and has no events is not used again.
Forgotten == NewSocket("socket", FALSE)

\* Takes over what a method of s has done.
Does(s, result) ==
  /\ result.sends # <<>> => PipeHasRoom
  /\ sock' = [sock EXCEPT ![s] =
                IF Open(result.sock) \/ result.sock.lookup \/ current' = s
                THEN result.sock ELSE Forgotten]
  /\ SendData(result.sends, IF result.sock._handler THEN {} ELSE {s})

-----------------------------------------------------------------------------
(* What the program does, between events and in handlers.                  *)

UserCode == current = NULL \/ running # NULL

\* The kernel hands out the lowest free descriptor; stdin is open already.
FreeFds == {fd \in Fds \ {Stdin} : file[fd] = NULL}
LowestFds == {fd \in FreeFds : \A other \in FreeFds : fd <= other}

\* Opens a server socket, or the end of a pipe to a process or stdin.
OpenFile(s, fd, kind) ==
  /\ UserCode /\ kind \in Kinds \ {"socket"}
  /\ IF kind = "stdin" THEN fd = Stdin /\ file[fd] = NULL ELSE fd \in LowestFds
  /\ ~Open(sock[s]) /\ ~sock[s].lookup /\ current # s
  /\ sock' = [sock EXCEPT ![s] = [NewSocket(kind, FALSE) EXCEPT !._id = fd]]
  /\ file' = [file EXCEPT ![fd] = NewFile(kind)]
  /\ UNCHANGED <<interrupt_fds_, socket_map_, epoll_fd_, now, inbox, pollvars,
                 current, todo, running>>

\* new Socket(host, port) asks a service for the address.
Connect(s) ==
  /\ UserCode /\ "socket" \in Kinds
  /\ ~Open(sock[s]) /\ ~sock[s].lookup /\ current # s
  /\ sock' = [sock EXCEPT ![s] = NewSocket("socket", TRUE)]
  /\ UNCHANGED <<ehvars, current, todo, running>>

\* The address is there: the descriptor is made, and the handlers that were
\* set in the meantime are activated.
LookupDone(s, fd) ==
  /\ current = NULL /\ sock[s].lookup /\ fd \in LowestFds
  /\ UNCHANGED <<epoll_fd_, now, timeout_, pc, deadline, events, current, todo, running>>
  /\ Does(s, ActivateHandlers(s, [sock[s] EXCEPT !._id = fd, !.lookup = FALSE]))
  /\ file' = [file EXCEPT ![fd] = [NewFile("socket") EXCEPT !.room = FALSE]]

\* The lookup or the connection fails: the error handler is called.
LookupFails(s) ==
  /\ current = NULL /\ sock[s].lookup
  /\ sock' = [sock EXCEPT ![s] = Forgotten]
  /\ UNCHANGED <<ehvars, current, todo, running>>

\* What a step of the isolate leaves alone that only uses Does.
Elsewhere == UNCHANGED <<epoll_fd_, file, now, timeout_, pc, deadline, events>>

\* What a program can wait for: connections, bytes, room, the end of the input.
HandlersOf(kind) ==
  CASE kind = "listen" -> {"in"}
    [] kind \in {"in", "stdin"} -> {"in", "close"}
    [] kind = "out" -> {"out"}
    [] kind = "socket" -> {"in", "out", "close"}

\* Setting a handler.  A SocketInputStream sets the close handler first, and a
\* SocketOutputStream the write handler after a write that had no error.
SetHandler(s, e) ==
  /\ UserCode /\ (Open(sock[s]) \/ sock[s].lookup) /\ Len(inbox) < MaxInbox
  /\ e \in HandlersOf(sock[s].kind)
  /\ Streams /\ IsSocket(sock[s]) =>
       /\ e # "close" /\ sock[s].kind # "out" => "close" \in sock[s]._handlerMask
       /\ e = "out" /\ Open(sock[s]) => ~file[sock[s]._id].err
  /\ Elsewhere /\ UNCHANGED <<current, todo, running>>
  /\ Does(s, SetHandlerMask(s, sock[s], sock[s]._handlerMask \cup {e}))

\* Clearing a handler.  A SocketInputStream never clears its close handler, a
\* SocketOutputStream clears its write handler only in that handler.
ClearHandler(s, e) ==
  /\ UserCode /\ e \in sock[s]._handlerMask /\ Len(inbox) < MaxInbox
  /\ Streams => e # "close" /\ (e = "out" => current = s /\ running = "out")
  /\ Elsewhere /\ UNCHANGED <<current, todo, running>>
  /\ Does(s, SetHandlerMask(s, sock[s], sock[s]._handlerMask \ {e}))

\* close() and close(true).  Both leave a socket alone that has no descriptor.
Close(s) ==
  /\ UserCode /\ Open(sock[s])
  /\ Elsewhere /\ UNCHANGED <<current, todo, running>>
  /\ Does(s, CloseSocket(s, sock[s]))

HalfClose(s) ==
  /\ UserCode /\ Open(sock[s]) /\ sock[s].kind = "socket" /\ Len(inbox) < MaxInbox
  /\ Elsewhere /\ UNCHANGED <<current, todo, running>>
  /\ Does(s, CloseWrite(s, sock[s]))

\* readList takes all bytes; writeList fills the buffer of the descriptor.
Read(s) ==
  /\ UserCode /\ Open(sock[s]) /\ IsSocket(sock[s]) /\ file[sock[s]._id].data
  /\ file' = [file EXCEPT ![sock[s]._id].data = FALSE]
  /\ UNCHANGED <<interrupt_fds_, socket_map_, epoll_fd_, now, inbox, pollvars, svars>>

Write(s) ==
  /\ UserCode /\ Open(sock[s]) /\ "out" \in HandlersOf(sock[s].kind)
  /\ file[sock[s]._id].room /\ ~file[sock[s]._id].err
  /\ file' = [file EXCEPT ![sock[s]._id].room = FALSE]
  /\ UNCHANGED <<interrupt_fds_, socket_map_, epoll_fd_, now, inbox, pollvars, svars>>

-----------------------------------------------------------------------------
(* _multiplex                                                              *)

\* The next message of the isolate is an event of s.
Receive(s) ==
  /\ current = NULL /\ inbox # <<>> /\ Head(inbox).port = s
  /\ current' = s
  /\ todo' = Head(inbox).message
  /\ inbox' = Tail(inbox)
  /\ sock' = [sock EXCEPT ![s]._canActivateHandlers = FALSE]
  /\ UNCHANGED <<interrupt_fds_, socket_map_, epoll_fd_, file, now, pollvars, running>>

\* The event the loop of _multiplex looks at next.
Multiplexes(s, e) ==
  /\ current = s /\ running = NULL /\ e \in todo
  /\ \A i, j \in DOMAIN EventOrder :
       EventOrder[i] \in todo /\ EventOrder[j] = e => j <= i
  /\ todo' = todo \ {e}
  /\ current' = s

\* onData: not if there is no data after all.
InEvent(s) ==
  /\ Multiplexes(s, "in") /\ IsSocket(sock[s])
  /\ running' = IF "in" \in sock[s]._handlerMask /\ file[sock[s]._id].data
                THEN "in" ELSE NULL
  /\ UNCHANGED <<ehvars, sock>>

\* onConnection: _connectionHandler accepts a connection.  Without a free
\* descriptor the server socket reports the error and is closed.
ConnectionEvent(s) ==
  LET f == file[sock[s]._id]
  IN  /\ Multiplexes(s, "in") /\ ~IsSocket(sock[s])
      /\ IF "in" \notin sock[s]._handlerMask \/ ~f.data
         THEN running' = NULL /\ UNCHANGED <<ehvars, sock>>
         ELSE \/ \E c \in Socks, fd \in LowestFds :
                   /\ ~Open(sock[c]) /\ ~sock[c].lookup
                   /\ sock' = [sock EXCEPT ![c] = [NewSocket("socket", FALSE) EXCEPT !._id = fd]]
                   /\ file' = [file EXCEPT ![sock[s]._id].data = FALSE,
                                           ![fd] = NewFile("socket")]
                   /\ running' = "in"
                   /\ UNCHANGED <<interrupt_fds_, socket_map_, epoll_fd_, now, inbox, pollvars>>
              \/ /\ FreeFds = {}
                 /\ Does(s, CloseSocket(s, sock[s]))
                 /\ running' = "error"
                 /\ Elsewhere

\* onWrite: the handler is unregistered before it is called.
OutEvent(s) ==
  /\ Multiplexes(s, "out")
  /\ IF "out" \in sock[s]._handlerMask
     THEN /\ Does(s, SetHandlerMask(s, sock[s], sock[s]._handlerMask \ {"out"}))
          /\ running' = "out"
          /\ Elsewhere
     ELSE running' = NULL /\ UNCHANGED <<ehvars, sock>>

\* _reportError closes the socket before it calls the error handler.
ErrorEvent(s) ==
  /\ Multiplexes(s, "error")
  /\ Does(s, CloseSocket(s, sock[s]))
  /\ running' = "error"
  /\ Elsewhere

\* Mutant: does not remember that the input has ended.
CloseEventForgets(s) ==
  /\ Multiplexes(s, "close")
  /\ running' = IF "close" \in sock[s]._handlerMask THEN "close" ELSE NULL
  /\ UNCHANGED <<ehvars, sock>>

\* onClosed; a socket that was half closed before is closed.
CloseEvent(s) ==
  LET r == IF IsSocket(sock[s]) /\ Open(sock[s])
           THEN [sock[s] EXCEPT !._closedRead = TRUE] ELSE sock[s]
  IN  /\ Multiplexes(s, "close")
      /\ Does(s, IF r._closedWrite THEN CloseSocket(s, r) ELSE Quiet(r))
      /\ running' = IF "close" \in r._handlerMask THEN "close" ELSE NULL
      /\ Elsewhere

HandlerReturns ==
  /\ running # NULL
  /\ running' = NULL
  /\ UNCHANGED <<ehvars, sock, current, todo>>

\* Mutant: does not send the mask again.
MultiplexEndSilent(s) ==
  /\ current = s /\ running = NULL /\ todo = {}
  /\ current' = NULL
  /\ Does(s, Quiet([sock[s] EXCEPT !._canActivateHandlers = TRUE]))
  /\ Elsewhere /\ UNCHANGED <<todo, running>>

\* After the loop the mask is sent, which registers the descriptor again.
MultiplexEnd(s) ==
  /\ current = s /\ running = NULL /\ todo = {}
  /\ current' = NULL
  /\ Does(s, ActivateHandlers(s, [sock[s] EXCEPT !._canActivateHandlers = TRUE]))
  /\ Elsewhere /\ UNCHANGED <<todo, running>>

-----------------------------------------------------------------------------
(* The other ends of the descriptors (external).                           *)

Becomes(fd, f) ==
  /\ f # file[fd]
  /\ file' = [file EXCEPT ![fd] = f]
  /\ UNCHANGED <<interrupt_fds_, socket_map_, epoll_fd_, now, inbox, pollvars, svars>>

\* A broken connection can be read and written, with an error; a pipe that has
\* lost its reader stays as full as it is.
Broken(f) ==
  IF f.kind = "socket" THEN [f EXCEPT !.err = TRUE, !.eof = TRUE, !.room = TRUE]
  ELSE [f EXCEPT !.err = TRUE]

\* Between the first mask and the close: bytes arrive, the input ends, the
\* connection breaks, or room is made.
PeerActs(fd) ==
  LET f == file[fd]
  IN  /\ socket_map_[fd] # NULL /\ \E s \in Socks : sock[s]._id = fd
      /\ \/ f.kind # "out" /\ ~f.eof /\ Becomes(fd, [f EXCEPT !.data = TRUE])
         \/ f.kind \in {"socket", "in", "stdin"} /\ Becomes(fd, [f EXCEPT !.eof = TRUE])
         \/ f.kind \in {"socket", "out"} /\ Becomes(fd, Broken(f))
         \/ f.kind \in {"socket", "out"} /\ Becomes(fd, [f EXCEPT !.room = TRUE])

-----------------------------------------------------------------------------
Init ==
  /\ EHInit
  /\ sock = [s \in Socks |-> Forgotten]
  /\ current = NULL /\ todo = {} /\ running = NULL

User(s) ==
  \/ \E fd \in Fds, kind \in Kinds : OpenFile(s, fd, kind)
  \/ Connect(s)
  \/ \E e \in {"in", "out", "close"} : SetHandler(s, e) \/ ClearHandler(s, e)
  \/ HalfClose(s)
  \/ Read(s)
  \/ Write(s)

Lookup(s) == LookupFails(s) \/ \E fd \in Fds : LookupDone(s, fd)

Multiplex(s) ==
  \/ Receive(s)
  \/ InEvent(s)
  \/ ConnectionEvent(s)
  \/ OutEvent(s)
  \/ ErrorEvent(s)
  \/ CloseEvent(s)
  \/ MultiplexEnd(s)

Next ==
  \/ Poll /\ UNCHANGED svars
  \/ \E s \in Users : User(s) \/ Lookup(s)
  \/ \E s \in Socks : Close(s) \/ Multiplex(s)
  \/ HandlerReturns
  \/ \E fd \in Fds : PeerActs(fd)

Spec == Init /\ [][Next]_vars

-----------------------------------------------------------------------------
(* Properties                                                              *)

\* The calls of epoll_ctl never fail and the assertions of HandleEvents hold:
\* tracked_by_epoll_ says what the kernel knows, a tracked descriptor is open
\* and has a port, and no event is left for a SocketData that was deleted.
EpollInSync ==
  /\ \A fd \in Fds :
       LET tracked == socket_map_[fd] # NULL /\ socket_map_[fd].tracked
       IN  /\ tracked <=> epoll_fd_[fd] # NULL
           /\ tracked => file[fd] # NULL /\ socket_map_[fd].port # NoPort
  /\ \A e \in events : socket_map_[e.fd] # NULL /\ socket_map_[e.fd].tracked

MessagesFor(fd) == {i \in DOMAIN interrupt_fds_ : interrupt_fds_[i].id = fd}
ClosePending(fd) == \E i \in MessagesFor(fd) : interrupt_fds_[i].data = {"kCloseCommand"}

\* A descriptor number is used again as soon as the event handler has closed
\* it.  Still every open descriptor has exactly one owner, a socket or a close
\* command on its way, nothing is sent for it after that command, and every
\* message is for an open descriptor.
DescriptorsOwned ==
  \A fd \in Fds :
    /\ file[fd] # NULL /\ ~ClosePending(fd) <=> \E s \in Socks : sock[s]._id = fd
    /\ \A s, t \in Socks : sock[s]._id = fd /\ sock[t]._id = fd => s = t
    /\ \A i \in MessagesFor(fd) :
         /\ file[fd] # NULL
         /\ interrupt_fds_[i].data = {"kCloseCommand"} => \A j \in MessagesFor(fd) : j <= i

EventPending(s) ==
  current = s \/ \E i \in DOMAIN inbox : inbox[i].port = s

\* When the event handler has seen the end of a socket's input and will poll
\* it no more, the isolate knows or is about to be told.
EndReported ==
  \A s \in Socks :
    Open(sock[s]) /\ IsSocket(sock[s]) /\ socket_map_[sock[s]._id] # NULL
      /\ "kClosedRead" \in socket_map_[sock[s]._id].flags
    => sock[s]._closedRead \/ EventPending(s)

\* The registration of a socket once all messages are read.
LastMask(fd) ==
  LET masks == {i \in MessagesFor(fd) : interrupt_fds_[i].data \in Masks}
  IN  IF masks = {} THEN NULL
      ELSE interrupt_fds_[CHOOSE i \in masks : \A j \in masks : j <= i]

\* A socket that waits for data or for room is never forgotten: its events
\* are registered with its port, or a message that registers them is on its
\* way, or an event is, after which _multiplex registers them again.
NotStalled ==
  \A s \in Socks : \A e \in {"in", "out"} :
    LET fd == sock[s]._id
        last == LastMask(fd)
        sd == socket_map_[fd]
    IN  Open(sock[s]) /\ e \in HandlerData(sock[s]) =>
          \/ EventPending(s)
          \/ last # NULL /\ last.port = s /\ e \in last.data
          \/ /\ last = NULL /\ sd # NULL /\ sd.port = s
             /\ epoll_fd_[fd] # NULL
             /\ (IF e = "in" THEN "EPOLLIN" ELSE "EPOLLOUT") \in epoll_fd_[fd]
=============================================================================
