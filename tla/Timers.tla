------------------------------- MODULE Timers -------------------------------
(***************************************************************************)
(* The timers of dart:io (runtime/bin/timer_impl.dart) above the event     *)
(* handler.  An isolate keeps its timers in a list ordered by wakeup time  *)
(* and tells the event handler the first one; the event handler posts to   *)
(* the receive port of the timers, and all timers that are due are called. *)
(***************************************************************************)
EXTENDS EventHandler

CONSTANTS
  Timers,         \* timer objects
  TimerPort,      \* the receive port of the timers, while it is open
  Delays,         \* the values of milliSeconds
  MaxTime,        \* bound: the clock stops
  MaxInbox        \* bound: timers are set and cancelled while fewer timeouts wait

\* null is neither a timer nor a time, and the port of the timers is none of the
\* special ports.
ASSUME TimersAssumption ==
  /\ NULL \notin Timers /\ NULL \notin Int /\ TimerPort \notin {NoPort, ClosedPort}
  /\ Delays \subseteq Int /\ MaxTime \in Nat

\* No delay is negative, and each fits into the int that epoll_wait takes.
DelaysFit ==
  Delays \subseteq Nat /\ \A d \in Delays \cup {0} : \A n \in 0..d : ToInt(n) = n

VARIABLES
  timer,               \* the fields of each timer
  _timers,             \* the list of timers, by wakeup time
  _receivePort,        \* is there a receive port?
  _handling_callbacks,
  pending_timers,      \* the due timers whose callbacks are still to be called
  running,             \* the timer whose callback runs, or NULL
  ended,               \* the isolate ended with an uncaught exception
  arrivals             \* history: the waiting timers in the order they were enqueued

tvars == <<timer, _timers, _receivePort, _handling_callbacks, pending_timers, running,
           ended, arrivals>>
vars == <<ehvars, tvars>>

NO_TIMER == -1

\* A timer that was never set, was cancelled or has run.
Cleared == [_callback |-> FALSE, _milliSeconds |-> 0, _wakeupTime |-> 0, _repeating |-> FALSE]

-----------------------------------------------------------------------------
\* Mutant: a timer overtakes those with the same wakeup time.
AddBeforeEqual(t, all, list) ==
  Insert(list, Leading(list, {u \in Timers : all[u]._wakeupTime < all[t]._wakeupTime}), t)

\* The list with t in front of the first timer that wakes up later.
AddTimerToList(t, all, list) ==
  Insert(list, Leading(list, {u \in Timers : all[u]._wakeupTime <= all[t]._wakeupTime}), t)

\* Mutant: the receive port is kept when no timer is left.
NotifyKeepingPort ==
  IF _handling_callbacks' THEN SendData(<<>>, {}) /\ UNCHANGED _receivePort
  ELSE IF _timers' = <<>>
  THEN /\ _receivePort => PipeHasRoom
       /\ UNCHANGED _receivePort
       /\ SendData(IF _receivePort THEN <<InterruptMessage(kTimerId, TimerPort, NO_TIMER)>>
                   ELSE <<>>, {})
  ELSE /\ PipeHasRoom
       /\ _receivePort' = TRUE
       /\ SendData(<<InterruptMessage(kTimerId, TimerPort, timer'[_timers'[1]]._wakeupTime)>>, {})

\* Tells the event handler the first wakeup time, or that there is none and
\* the port is closed.  Nothing is sent while callbacks are handled.
NotifyEventHandler ==
  IF _handling_callbacks' THEN SendData(<<>>, {}) /\ UNCHANGED _receivePort
  ELSE IF _timers' = <<>>
  THEN /\ _receivePort => PipeHasRoom
       /\ _receivePort' = FALSE
       /\ SendData(IF _receivePort THEN <<InterruptMessage(kTimerId, TimerPort, NO_TIMER)>>
                   ELSE <<>>, {TimerPort})
  ELSE /\ PipeHasRoom
       /\ _receivePort' = TRUE
       /\ SendData(<<InterruptMessage(kTimerId, TimerPort, timer'[_timers'[1]]._wakeupTime)>>, {})

Elsewhere == UNCHANGED <<epoll_fd_, file, now, timeout_, pc, deadline, events>>

-----------------------------------------------------------------------------
(* What the program does, in callbacks and elsewhere.                      *)

UserCode == ~ended /\ (_handling_callbacks => running # NULL) /\ Len(inbox) < MaxInbox

Known(t) ==
  \/ t = running
  \/ \E i \in DOMAIN _timers : _timers[i] = t
  \/ \E i \in DOMAIN pending_timers : pending_timers[i] = t

\* A new timer object; objects that are gone are named again.
NewTimer == CHOOSE t \in Timers : ~Known(t)

CreateTimer(milliSeconds, repeating) ==
  LET t == NewTimer IN
  /\ UserCode /\ \E u \in Timers : ~Known(u)
  /\ timer' = [timer EXCEPT ![t] =
                [_callback |-> TRUE, _milliSeconds |-> milliSeconds,
                 _wakeupTime |-> now + milliSeconds, _repeating |-> repeating]]
  /\ _timers' = AddTimerToList(t, timer', _timers)
  /\ arrivals' = Append(arrivals, t)
  /\ UNCHANGED <<_handling_callbacks, pending_timers, running, ended>>
  /\ NotifyEventHandler
  /\ Elsewhere

\* cancel(): the event handler is told if the first timer is removed.
Cancel(t) ==
  /\ UserCode /\ Known(t) /\ timer[t]._callback
  /\ timer' = [timer EXCEPT ![t] = Cleared]
  /\ _timers' = Unlink(_timers, t)
  /\ arrivals' = Unlink(arrivals, t)
  /\ UNCHANGED <<_handling_callbacks, pending_timers, running, ended>>
  /\ IF _timers # <<>> /\ _timers[1] = t THEN NotifyEventHandler
     ELSE SendData(<<>>, {}) /\ UNCHANGED _receivePort
  /\ Elsewhere

-----------------------------------------------------------------------------
(* _handleTimeout                                                          *)

\* How many timers are taken from the front of the list: those that are due.
Due == Leading(_timers, {t \in Timers : timer[t]._wakeupTime <= now})

\* A message of the event handler: collects all pending timers.
Timeout ==
  /\ ~ended /\ ~_handling_callbacks /\ inbox # <<>>
  /\ inbox' = Tail(inbox)
  /\ pending_timers' = SubSeq(_timers, 1, Due)
  /\ _timers' = SubSeq(_timers, Due + 1, Len(_timers))
  /\ _handling_callbacks' = TRUE
  /\ UNCHANGED <<interrupt_fds_, socket_map_, epoll_fd_, file, now, pollvars,
                 timer, _receivePort, running, ended, arrivals>>

\* The next pending timer; a callback before may have cancelled it.
CallPending ==
  LET t == Head(pending_timers)
  IN  /\ _handling_callbacks /\ running = NULL /\ pending_timers # <<>>
      /\ pending_timers' = Tail(pending_timers)
      /\ running' = IF timer[t]._callback THEN t ELSE NULL
      /\ arrivals' = Unlink(arrivals, t)
      /\ UNCHANGED <<ehvars, timer, _timers, _receivePort, _handling_callbacks, ended>>

\* A callback returns; a repeating timer is enqueued again.
CallbackReturns ==
  LET t == running
      again == [timer EXCEPT ![t]._wakeupTime = @ + timer[t]._milliSeconds]
  IN  /\ running # NULL
      /\ running' = NULL
      /\ IF timer[t]._repeating
         THEN /\ timer' = again
              /\ _timers' = AddTimerToList(t, again, _timers)
              /\ arrivals' = Append(arrivals, t)
         ELSE /\ timer' = [timer EXCEPT ![t] = Cleared]
              /\ UNCHANGED <<_timers, arrivals>>
      /\ UNCHANGED <<ehvars, _receivePort, _handling_callbacks, pending_timers, ended>>

\* Mutant: the event handler is not told the next timer.
CallbacksDoneSilent ==
  /\ _handling_callbacks /\ running = NULL /\ pending_timers = <<>>
  /\ _handling_callbacks' = FALSE
  /\ UNCHANGED <<ehvars, timer, _timers, _receivePort, pending_timers, running, ended, arrivals>>

\* All pending timers are processed.
CallbacksDone ==
  /\ _handling_callbacks /\ running = NULL /\ pending_timers = <<>>
  /\ _handling_callbacks' = FALSE
  /\ UNCHANGED <<timer, _timers, pending_timers, running, ended, arrivals>>
  /\ NotifyEventHandler
  /\ Elsewhere

\* An exception leaves the loop without notifying the event handler; nobody
\* catches it, and the isolate ends and closes its ports.
CallbackThrows ==
  /\ running # NULL
  /\ _handling_callbacks' = FALSE
  /\ ended' = TRUE
  /\ timer' = [t \in Timers |-> Cleared]
  /\ _timers' = <<>> /\ pending_timers' = <<>> /\ arrivals' = <<>>
  /\ running' = NULL
  /\ _receivePort' = FALSE
  /\ SendData(<<>>, {TimerPort})
  /\ Elsewhere

-----------------------------------------------------------------------------
Tick ==
  /\ now < MaxTime
  /\ now' = now + 1
  /\ UNCHANGED <<interrupt_fds_, socket_map_, epoll_fd_, file, inbox, pollvars, tvars>>

Init ==
  /\ EHInit
  /\ timer = [t \in Timers |-> Cleared]
  /\ _timers = <<>> /\ pending_timers = <<>> /\ arrivals = <<>>
  /\ _receivePort = FALSE /\ _handling_callbacks = FALSE
  /\ running = NULL /\ ended = FALSE

User ==
  \/ \E milliSeconds \in Delays, repeating \in BOOLEAN : CreateTimer(milliSeconds, repeating)
  \/ \E t \in Timers : Cancel(t)

HandleTimeouts == Timeout \/ CallPending \/ CallbackReturns \/ CallbacksDone

Next ==
  \/ Poll /\ UNCHANGED tvars
  \/ User
  \/ HandleTimeouts
  \/ CallbackThrows
  \/ Tick

\* The event handler and the isolate are threads that go on, callbacks return
\* and time passes; epoll_wait is called when the pipe is found empty.
Spec ==
  /\ Init /\ [][Next]_vars
  /\ WF_vars(Poll /\ UNCHANGED tvars) /\ SF_vars(EpollWait /\ UNCHANGED tvars)
  /\ WF_vars(HandleTimeouts)
  /\ WF_vars(Tick)

-----------------------------------------------------------------------------
\* t wakes up before u, or at the same time and was enqueued before it.
Before(t, u) ==
  \/ timer[t]._wakeupTime < timer[u]._wakeupTime
  \/ timer[t]._wakeupTime = timer[u]._wakeupTime /\ Ahead(arrivals, t, u)

\* Timers are called by wakeup time, and those with the same wakeup time in the
\* order in which they were enqueued, even if callbacks add and cancel timers
\* and repeating timers return: the list, and what the callbacks have left of
\* the pending timers, are in that order.
FifoOrder ==
  \A t, u \in Timers :
    \/ Ahead(_timers, t, u)
    \/ Ahead(pending_timers, t, u) /\ timer[t]._callback /\ timer[u]._callback
    => Before(t, u)

\* The receive port, which keeps the isolate alive, is open exactly while timers
\* are set.
PortTracksTimers == ~_handling_callbacks => (_receivePort <=> _timers # <<>>)

\* A callback runs at the wakeup time of its timer or later.
NotEarly == running # NULL => timer[running]._wakeupTime <= now

\* Outside of the callbacks the wakeup of the first timer is never lost: a
\* timeout is on its way to the isolate, the last command in the pipe sets it,
\* or the event handler knows it and does not sleep past it.
WakeupPlanned ==
  ~_handling_callbacks /\ _timers # <<>> =>
    LET first == timer[_timers[1]]._wakeupTime
    IN  \/ inbox # <<>>
        \/ /\ interrupt_fds_ # <<>>
           /\ interrupt_fds_[Len(interrupt_fds_)] = InterruptMessage(kTimerId, TimerPort, first)
        \/ /\ interrupt_fds_ = <<>>
           /\ timeout_ = first /\ timeout_port_ = TimerPort
           /\ pc = "wait" => deadline # NULL /\ (deadline = first \/ deadline <= now)

Waits(t) ==
  /\ t \in Range(_timers \o pending_timers)
  /\ timer[t]._callback /\ timer[t]._wakeupTime <= MaxTime

\* A timer does not wait for ever: it is called or cancelled, or the isolate
\* ends, provided that the isolate does not keep the pipe filled for ever
\* (HandleInterruptFd reads until it is empty).
TimersFire ==
  []<>(interrupt_fds_ = <<>>) => \A t \in Timers : []<>~Waits(t)
=============================================================================
