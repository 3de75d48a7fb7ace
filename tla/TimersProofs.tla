---------------------------- MODULE TimersProofs ----------------------------
(***************************************************************************)
(* Proofs about Timers for any number of timers, any delays and any        *)
(* capacity of the pipe.                                                   *)
(***************************************************************************)
EXTENDS Timers, DataLemmas

\* Zenon for a moment, then SMT, then Zenon for longer.
USE ZenonT(2), SMTT(30), ZenonT(30)

\* What is inserted comes after the elements in front of its place and before
\* the others.
LEMMA InsertAhead ==
  ASSUME NEW S, NEW q \in Seq(S), NEW k \in 0..Len(q), NEW x \in S
  PROVE  /\ Insert(q, k, x) \in Seq(S) /\ Insert(q, k, x) # <<>>
         /\ Range(Insert(q, k, x)) = Range(q) \cup {x}
         /\ \A t, u : Ahead(Insert(q, k, x), t, u) =>
              \/ Ahead(q, t, u)
              \/ u = x /\ \E i \in 1..k : t = q[i]
              \/ t = x /\ \E i \in k + 1..Len(q) : u = q[i]
<1>0. PICK a, b, p, n : n = Len(q) /\ a = SubSeq(q, 1, k) /\ b = SubSeq(q, k + 1, n)
                       /\ p = Insert(q, k, x)
  BY ZenonT(30)
<1>1. n \in Nat /\ DOMAIN q = 1..n /\ k \in 0..n
  BY <1>0
<1>2. a \in Seq(S) /\ Len(a) = k /\ \A i \in 1..k : a[i] = q[i]
  BY <1>0
<1>3. b \in Seq(S) /\ Len(b) = n - k /\ \A i \in 1..n - k : b[i] = q[k + i]
  BY <1>0, <1>1
<1>4. p = a \o <<x>> \o b
  BY <1>0 DEF Insert
<1>5. PICK c : c = a \o <<x>>
  BY ZenonT(30)
<1>6. c \in Seq(S) /\ Len(c) = k + 1 /\ c[k + 1] = x /\ \A i \in 1..k : c[i] = q[i]
  BY <1>1, <1>2, <1>5
<1>7. p = c \o b
  BY <1>4, <1>5
<1>8. /\ p \in Seq(S) /\ Len(p) = Len(c) + Len(b)
      /\ \A i \in 1..Len(c) : p[i] = c[i]
      /\ \A i \in 1..Len(b) : p[Len(c) + i] = b[i]
  <2>1. c \in Seq(S) /\ b \in Seq(S)
    BY <1>3, <1>6
  <2>. QED
    BY <1>7, <2>1, ConcatIndex
<1>9. p \in Seq(S) /\ Len(p) = n + 1 /\ DOMAIN p = 1..n + 1
  <2>1. Len(c) + Len(b) = n + 1
    BY <1>1, <1>3, <1>6
  <2>2. p \in Seq(S) /\ Len(p) = n + 1
    BY <1>8, <2>1
  <2>. QED
    BY <2>2
<1>10. /\ \A i \in 1..k : p[i] = q[i]
      /\ p[k + 1] = x
      /\ \A i \in k + 1..n : p[i + 1] = q[i]
  <2>1. \A i \in 1..Len(c) : p[i] = c[i]
    BY <1>8
  <2>2. \A i \in 1..Len(b) : p[Len(c) + i] = b[i]
    BY <1>8
  <2>3. ASSUME NEW i \in k + 1..n PROVE p[i + 1] = q[i]
    <3>1. i - k \in 1..n - k /\ (k + 1) + (i - k) = i + 1 /\ k + (i - k) = i
      BY <1>1
    <3>2. p[Len(c) + (i - k)] = b[i - k]
      BY <1>3, <2>2, <3>1
    <3>3. b[i - k] = q[i]
      BY <1>3, <3>1
    <3>. QED
      BY <1>6, <3>1, <3>2, <3>3
  <2>4. \A i \in 1..k : i \in 1..Len(c)
    BY <1>1, <1>6
  <2>. QED
    BY <1>1, <1>6, <2>1, <2>3, <2>4
<1>11. \A i \in 1..n + 1 : i \in 1..k \/ i = k + 1 \/ (i - 1 \in k + 1..n /\ (i - 1) + 1 = i)
  BY <1>1
<1>12. Range(p) = Range(q) \cup {x}
  <2>1. ASSUME NEW y \in Range(p) PROVE y \in Range(q) \cup {x}
    <3>1. PICK i \in 1..n + 1 : y = p[i]
      BY <1>9 DEF Range
    <3>2. i \in 1..k => i \in 1..n
      BY <1>1
    <3>3. i - 1 \in k + 1..n => i - 1 \in 1..n
      BY <1>1
    <3>4. CASE i \in 1..k
      BY <1>1, <1>10, <3>1, <3>2, <3>4 DEF Range
    <3>5. CASE i = k + 1
      BY <1>10, <3>1, <3>5
    <3>6. CASE i - 1 \in k + 1..n /\ (i - 1) + 1 = i
      <4>1. p[(i - 1) + 1] = q[i - 1]
        BY <1>10, <3>6
      <4>. QED
        BY <1>1, <3>1, <3>3, <3>6, <4>1 DEF Range
    <3>. QED
      BY <1>11, <3>4, <3>5, <3>6
  <2>2. ASSUME NEW y \in Range(q) PROVE y \in Range(p)
    <3>1. PICK i \in 1..n : y = q[i]
      BY <1>1 DEF Range
    <3>2. (i \in 1..k \/ i \in k + 1..n) /\ i \in 1..n + 1 /\ i + 1 \in 1..n + 1
      BY <1>1
    <3>. QED
      BY <1>9, <1>10, <3>1, <3>2 DEF Range
  <2>3. x \in Range(p)
    BY <1>1, <1>9, <1>10 DEF Range
  <2>. QED
    BY <2>1, <2>2, <2>3
<1>13. ASSUME NEW t, NEW u, Ahead(p, t, u)
       PROVE  \/ Ahead(q, t, u)
              \/ u = x /\ \E i \in 1..k : t = q[i]
              \/ t = x /\ \E i \in k + 1..n : u = q[i]
  <2>1. PICK i, j \in 1..n + 1 : i < j /\ p[i] = t /\ p[j] = u
    BY <1>9, <1>13 DEF Ahead
  <2>2. CASE j \in 1..k
    <3>1. i \in 1..k /\ i \in DOMAIN q /\ j \in DOMAIN q
      BY <1>1, <2>1, <2>2
    <3>. QED
      BY <1>10, <2>1, <2>2, <3>1 DEF Ahead
  <2>3. CASE j = k + 1
    <3>1. i \in 1..k
      BY <1>1, <2>1, <2>3
    <3>. QED
      BY <1>10, <2>1, <2>3, <3>1
  <2>4. CASE j - 1 \in k + 1..n /\ (j - 1) + 1 = j
    <3>1. q[j - 1] = u /\ j - 1 \in DOMAIN q
      BY <1>1, <1>10, <2>1, <2>4
    <3>2. CASE i \in 1..k
      <4>1. i < j - 1 /\ i \in DOMAIN q /\ q[i] = t
        BY <1>1, <1>10, <2>1, <2>4, <3>2
      <4>. QED
        BY <3>1, <4>1 DEF Ahead
    <3>3. CASE i = k + 1
      BY <1>10, <2>1, <2>4, <3>1, <3>3
    <3>4. CASE i - 1 \in k + 1..n /\ (i - 1) + 1 = i
      <4>1. i - 1 < j - 1 /\ i - 1 \in DOMAIN q
        BY <1>1, <2>1, <3>4
      <4>2. p[(i - 1) + 1] = q[i - 1]
        BY <1>10, <3>4
      <4>. QED
        BY <2>1, <3>1, <3>4, <4>1, <4>2 DEF Ahead
    <3>. QED
      BY <1>11, <3>2, <3>3, <3>4
  <2>. QED
    BY <1>11, <2>2, <2>3, <2>4
<1>14. p # <<>>
  BY <1>1, <1>9
<1>. QED
  BY <1>0, <1>9, <1>12, <1>13, <1>14

-----------------------------------------------------------------------------
(* The inductive invariants.                                               *)

TimerObject ==
  [_callback : BOOLEAN, _milliSeconds : Int, _wakeupTime : Int, _repeating : BOOLEAN]

TimerCommand == [id : {kTimerId}, port : {TimerPort, ClosedPort}, data : Int]

TimerEvent == [port : {TimerPort}, message : {"timeout"}]

\* The types, and that no descriptor is in use.
TimersTypeOK ==
  /\ timer \in [Timers -> TimerObject]
  /\ _timers \in Seq(Timers) /\ pending_timers \in Seq(Timers) /\ arrivals \in Seq(Timers)
  /\ running \in Timers \cup {NULL} /\ now \in Nat
  /\ interrupt_fds_ \in Seq(TimerCommand) /\ inbox \in Seq(TimerEvent)
  /\ timeout_port_ \in {TimerPort, ClosedPort, NoPort}
  /\ epoll_fd_ = [fd \in Fds |-> NULL] /\ events = {}

\* pending_timers and the callback are those of _handleTimeout.
HandlingInv == ~_handling_callbacks => pending_timers = <<>> /\ running = NULL

PortsInv == TimersTypeOK /\ HandlingInv /\ PortTracksTimers

\* A timer is in one place, and arrivals holds those that wait.
ListsInv ==
  /\ IsInjective(_timers) /\ IsInjective(pending_timers) /\ IsInjective(arrivals)
  /\ Range(_timers) \cap Range(pending_timers) = {}
  /\ running \notin Range(_timers) /\ running \notin Range(pending_timers)
  /\ \A t \in Range(_timers) : timer[t]._callback
  /\ \A t \in Timers : timer[t]._repeating => timer[t]._callback
  /\ Range(arrivals) = Range(_timers) \cup {t \in Range(pending_timers) : timer[t]._callback}

OrderInv == PortsInv /\ ListsInv /\ FifoOrder

\* A timer is set at most its delay ahead, and it is pending when it is due.
TimesInv ==
  \A t \in Timers :
    /\ timer[t]._wakeupTime \in Nat
    /\ timer[t]._milliSeconds \in Delays \cup {0}
    /\ timer[t]._wakeupTime <= now + timer[t]._milliSeconds
    /\ t = running \/ t \in Range(pending_timers) => timer[t]._wakeupTime <= now

\* WakeupPlanned, with the type that a deadline then has.
Planned(first) ==
  \/ inbox # <<>>
  \/ /\ interrupt_fds_ # <<>>
     /\ interrupt_fds_[Len(interrupt_fds_)] = InterruptMessage(kTimerId, TimerPort, first)
  \/ /\ interrupt_fds_ = <<>>
     /\ timeout_ = first /\ timeout_port_ = TimerPort
     /\ pc = "wait" => deadline \in Int /\ (deadline = first \/ deadline <= now)

FirstPlanned ==
  ~_handling_callbacks /\ _timers # <<>> => Planned(timer[_timers[1]]._wakeupTime)

WakeupInv == OrderInv /\ TimesInv /\ FirstPlanned

-----------------------------------------------------------------------------
\* The place of _addTimerToList: behind every timer that wakes up no later.
LEMMA AddTimer ==
  ASSUME NEW all \in [Timers -> TimerObject], NEW list \in Seq(Timers), NEW t \in Timers
  PROVE  \E k \in 0..Len(list) :
           /\ AddTimerToList(t, all, list) = Insert(list, k, t)
           /\ \A i \in 1..k : all[list[i]]._wakeupTime <= all[t]._wakeupTime
           /\ k < Len(list) => all[list[k + 1]]._wakeupTime > all[t]._wakeupTime
<1>1. PICK T, k : /\ T = {u \in Timers : all[u]._wakeupTime <= all[t]._wakeupTime}
                  /\ k = Leading(list, T)
  BY ZenonT(30)
<1>2. AddTimerToList(t, all, list) = Insert(list, k, t)
  BY <1>1 DEF AddTimerToList
<1>3. /\ k \in 0..Len(list)
      /\ \A i \in 1..k : list[i] \in T
      /\ k < Len(list) => list[k + 1] \notin T
  BY <1>1, LeadingLemma
<1>4. ASSUME NEW i \in 1..k PROVE all[list[i]]._wakeupTime <= all[t]._wakeupTime
  BY <1>1, <1>3
<1>5. ASSUME k < Len(list) PROVE all[list[k + 1]]._wakeupTime > all[t]._wakeupTime
  <2>1. list[k + 1] \in Timers /\ list[k + 1] \notin T
    BY <1>3, <1>5
  <2>2. all[list[k + 1]]._wakeupTime \in Int /\ all[t]._wakeupTime \in Int
    BY <2>1 DEF TimerObject
  <2>. QED
    BY <1>1, <2>1, <2>2
<1>. QED
  BY <1>2, <1>3, <1>4, <1>5

\* What happens to the pipe, the port and the inbox when msgs are sent.
LEMMA SendTimers ==
  ASSUME TimersTypeOK, NEW msgs \in Seq(TimerCommand), NEW closed, SendData(msgs, closed),
         closed \in {{}, {TimerPort}}
  PROVE  /\ interrupt_fds_' \in Seq(TimerCommand) /\ inbox' \in Seq(TimerEvent)
         /\ timeout_port_' \in {TimerPort, ClosedPort, NoPort}
         /\ closed = {} => /\ interrupt_fds_' = interrupt_fds_ \o msgs
                           /\ timeout_port_' = timeout_port_ /\ Range(inbox') = Range(inbox)
<1>0. PICK sent, n : sent = interrupt_fds_ \o msgs /\ n = Len(sent)
  BY ZenonT(30)
<1>1. sent \in Seq(TimerCommand) /\ n \in Nat /\ DOMAIN sent = 1..n
  BY <1>0 DEF TimersTypeOK
<1>2. sent \in [1..n -> TimerCommand]
  BY <1>1
<1>. DEFINE Closed(c) == [c EXCEPT !.port = Retire(@, closed)]
<1>3. \A c \in TimerCommand : Closed(c) \in TimerCommand /\ (closed = {} => Closed(c) = c)
  BY DEF TimerCommand, Retire
<1>4. interrupt_fds_' = [i \in 1..n |-> Closed(sent[i])]
  BY <1>0, <1>1 DEF SendData
<1>. HIDE DEF Closed
<1>5. interrupt_fds_' \in Seq(TimerCommand)
  <2>1. interrupt_fds_' \in [1..n -> TimerCommand]
    BY <1>2, <1>3, <1>4
  <2>. QED
    BY <1>1, <2>1
<1>6. closed = {} => interrupt_fds_' = sent
  BY <1>2, <1>3, <1>4
<1>7. /\ inbox' \in Seq(TimerEvent)
      /\ Range(inbox') = {m \in Range(inbox) : m.port \notin closed}
  BY RemainingLemma DEF SendData, TimersTypeOK
<1>8. /\ timeout_port_' \in {TimerPort, ClosedPort, NoPort}
      /\ closed = {} => timeout_port_' = timeout_port_
  BY DEF SendData, Retire, TimersTypeOK
<1>. QED
  BY <1>0, <1>5, <1>6, <1>7, <1>8

-----------------------------------------------------------------------------
(* The receive port: one lemma for each action.                            *)

\* What a call of _notifyEventHandler leaves: the port is open exactly if there
\* are timers, and the last command in the pipe is the first wakeup time.
LEMMA NotifyStep ==
  ASSUME TimersTypeOK, timer' \in [Timers -> TimerObject], _timers' \in Seq(Timers),
         NotifyEventHandler
  PROVE  /\ interrupt_fds_' \in Seq(TimerCommand) /\ inbox' \in Seq(TimerEvent)
         /\ timeout_port_' \in {TimerPort, ClosedPort, NoPort}
         /\ ~_handling_callbacks' =>
              /\ _receivePort' <=> _timers' # <<>>
              /\ _timers' # <<>> =>
                   /\ interrupt_fds_' # <<>>
                   /\ interrupt_fds_'[Len(interrupt_fds_')] =
                        InterruptMessage(kTimerId, TimerPort, timer'[_timers'[1]]._wakeupTime)
<1>1. <<>> \in Seq(TimerCommand)
  OBVIOUS
<1>2. \A d \in Int : InterruptMessage(kTimerId, TimerPort, d) \in TimerCommand
  BY DEF InterruptMessage, TimerCommand
<1>3. \A c \in TimerCommand : <<c>> \in Seq(TimerCommand)
  OBVIOUS
<1>4. CASE _handling_callbacks'
  <2>1. SendData(<<>>, {})
    BY <1>4 DEF NotifyEventHandler
  <2>. QED
    BY <1>1, <1>4, <2>1, SendTimers, ZenonT(30)
<1>5. CASE ~_handling_callbacks' /\ _timers' = <<>>
  <2>1. PICK msgs : /\ msgs \in {<<InterruptMessage(kTimerId, TimerPort, NO_TIMER)>>, <<>>}
                    /\ SendData(msgs, {TimerPort}) /\ _receivePort' = FALSE
    BY <1>5 DEF NotifyEventHandler
  <2>2. msgs \in Seq(TimerCommand)
    <3>1. NO_TIMER \in Int
      BY DEF NO_TIMER
    <3>2. <<InterruptMessage(kTimerId, TimerPort, NO_TIMER)>> \in Seq(TimerCommand)
      BY <1>2, <1>3, <3>1
    <3>. QED
      BY <1>1, <2>1, <3>2, ZenonT(30)
  <2>. QED
    BY <1>5, <2>1, <2>2, SendTimers
<1>6. CASE ~_handling_callbacks' /\ _timers' # <<>>
  <2>1. PICK c : c = InterruptMessage(kTimerId, TimerPort, timer'[_timers'[1]]._wakeupTime)
    OBVIOUS
  <2>2. c \in TimerCommand
    <3>1. _timers'[1] \in Timers
      BY <1>6
    <3>. QED
      BY <1>2, <2>1, <3>1 DEF TimerObject
  <2>3. SendData(<<c>>, {}) /\ _receivePort' = TRUE
    BY <1>6, <2>1 DEF NotifyEventHandler
  <2>4. /\ interrupt_fds_' \in Seq(TimerCommand) /\ inbox' \in Seq(TimerEvent)
        /\ timeout_port_' \in {TimerPort, ClosedPort, NoPort}
        /\ interrupt_fds_' = interrupt_fds_ \o <<c>>
    BY <1>3, <2>2, <2>3, SendTimers, ZenonT(30)
  <2>5. interrupt_fds_' # <<>> /\ interrupt_fds_'[Len(interrupt_fds_')] = c
    BY <2>2, <2>4 DEF TimersTypeOK
  <2>. QED
    BY <1>6, <2>1, <2>3, <2>4, <2>5
<1>. QED
  BY <1>4, <1>5, <1>6

\* The list after _addTimerToList.
LEMMA AddedTimer ==
  ASSUME NEW all \in [Timers -> TimerObject], NEW list \in Seq(Timers), NEW t \in Timers
  PROVE  /\ AddTimerToList(t, all, list) \in Seq(Timers)
         /\ AddTimerToList(t, all, list) # <<>>
         /\ Range(AddTimerToList(t, all, list)) = Range(list) \cup {t}
<1>1. PICK k \in 0..Len(list) : AddTimerToList(t, all, list) = Insert(list, k, t)
  BY AddTimer
<1>2. /\ Insert(list, k, t) \in Seq(Timers) /\ Insert(list, k, t) # <<>>
      /\ Range(Insert(list, k, t)) = Range(list) \cup {t}
  BY InsertAhead
<1>. QED
  BY <1>1, <1>2

\* The due timers are the first of the list.
LEMMA DueTimers ==
  ASSUME TimersTypeOK
  PROVE  /\ Due \in 0..Len(_timers)
         /\ \A i \in 1..Due : timer[_timers[i]]._wakeupTime <= now
<1>1. PICK T : T = {t \in Timers : timer[t]._wakeupTime <= now}
  BY ZenonT(30)
<1>2. _timers \in Seq(Timers) /\ Due = Leading(_timers, T)
  BY <1>1 DEF TimersTypeOK, Due
<1>3. Due \in 0..Len(_timers) /\ \A i \in 1..Due : _timers[i] \in T
  BY <1>2, LeadingLemma
<1>. QED
  BY <1>1, <1>3

\* A new timer is on no list.
LEMMA NewTimerStep ==
  ASSUME TimersTypeOK, NEW ms \in Delays, NEW repeating \in BOOLEAN, CreateTimer(ms, repeating)
  PROVE  \E t \in Timers :
           /\ t # running /\ t \notin Range(_timers) /\ t \notin Range(pending_timers)
           /\ timer' = [timer EXCEPT ![t] =
                          [_callback |-> TRUE, _milliSeconds |-> ms,
                           _wakeupTime |-> now + ms, _repeating |-> repeating]]
           /\ timer' \in [Timers -> TimerObject]
           /\ _timers' = AddTimerToList(t, timer', _timers)
           /\ arrivals' = Append(arrivals, t)
<1>0. PICK t : t = NewTimer
  OBVIOUS
<1>1. t \in Timers /\ ~Known(t)
  <2>1. \E u \in Timers : ~Known(u)
    BY DEF CreateTimer
  <2>. QED
    BY <1>0, <2>1 DEF NewTimer
<1>2. t # running /\ t \notin Range(_timers) /\ t \notin Range(pending_timers)
  BY <1>1 DEF Known, Range
<1>3. /\ timer' = [timer EXCEPT ![t] =
                    [_callback |-> TRUE, _milliSeconds |-> ms,
                     _wakeupTime |-> now + ms, _repeating |-> repeating]]
      /\ _timers' = AddTimerToList(t, timer', _timers)
      /\ arrivals' = Append(arrivals, t)
  BY <1>0 DEF CreateTimer
<1>4. timer' \in [Timers -> TimerObject]
  BY <1>1, <1>3, TimersAssumption DEF TimersTypeOK, TimerObject
<1>. QED
  BY <1>1, <1>2, <1>3, <1>4, ZenonT(30)

\* A timer object stays one when it is cleared or set again.
LEMMA ObjectStep ==
  ASSUME timer \in [Timers -> TimerObject], NEW t \in Timers
  PROVE  /\ [timer EXCEPT ![t] = Cleared] \in [Timers -> TimerObject]
         /\ [timer EXCEPT ![t]._wakeupTime = @ + timer[t]._milliSeconds] \in [Timers -> TimerObject]
  BY DEF Cleared, TimerObject

\* Unlinking a timer, and whether the first one stays.
LEMMA UnlinkTimer ==
  ASSUME NEW list \in Seq(Timers), NEW t \in Timers
  PROVE  /\ Unlink(list, t) \in Seq(Timers)
         /\ list # <<>> /\ list[1] # t => Unlink(list, t) # <<>> /\ Unlink(list, t)[1] = list[1]
         /\ list = <<>> => Unlink(list, t) = <<>>
<1>1. CASE t \notin Range(list)
  <2>1. Unlink(list, t) = list
    BY <1>1 DEF Unlink
  <2>. QED
    BY <2>1
<1>2. CASE t \in Range(list)
  <2>1. /\ Unlink(list, t) \in Seq(Timers) /\ Len(Unlink(list, t)) = Len(list) - 1
        /\ \E k \in 1..Len(list) :
             /\ list[k] = t
             /\ \A i \in 1..Len(list) - 1 :
                  Unlink(list, t)[i] = IF i < k THEN list[i] ELSE list[i + 1]
    BY <1>2, UnlinkIndex
  <2>2. PICK p : p = Unlink(list, t)
    OBVIOUS
  <2>3. PICK k \in 1..Len(list) :
             /\ list[k] = t
             /\ \A i \in 1..Len(list) - 1 : p[i] = IF i < k THEN list[i] ELSE list[i + 1]
    BY <2>1, <2>2
  <2>4. Len(list) \in Nat /\ p \in Seq(Timers) /\ Len(p) = Len(list) - 1 /\ list # <<>>
    BY <2>1, <2>2, <2>3
  <2>5. ASSUME list[1] # t PROVE p # <<>> /\ p[1] = list[1]
    <3>1. k # 1
      BY <2>3, <2>5
    <3>2. 1 < k /\ 1 \in 1..Len(list) - 1 /\ Len(p) >= 1
      BY <2>3, <2>4, <3>1
    <3>. QED
      BY <2>3, <2>4, <3>2
  <2>. QED
    BY <2>2, <2>4, <2>5
<1>. QED
  BY <1>1, <1>2

LEMMA PollPorts ==
  ASSUME PortsInv, Poll, UNCHANGED tvars
  PROVE  PortsInv' /\ (EpollReturns \/ TimerMessage \/ EpollWait)
<1>1. ASSUME GetInterruptMessage PROVE msg \in TimerCommand
  <2>1. interrupt_fds_ # <<>> /\ interrupt_fds_ \in Seq(TimerCommand)
    BY <1>1 DEF GetInterruptMessage, PortsInv, TimersTypeOK
  <2>. QED
    BY <2>1 DEF msg
<1>2. ~ShutdownWriteMessage /\ ~CloseMessage /\ ~SetEventsMessage
  BY <1>1 DEF TimerCommand, ShutdownWriteMessage, CloseMessage, SetEventsMessage
<1>3. ~\E e \in events : HandleEvent(e)
  BY DEF PortsInv, TimersTypeOK
<1>4. ReadyFds = {}
  BY DEF PortsInv, TimersTypeOK, ReadyFds, Reported
<1>5. EpollReturns \/ TimerMessage \/ EpollWait
  BY <1>2, <1>3 DEF Poll
<1>6. HandlingInv' /\ PortTracksTimers'
  BY DEF PortsInv, HandlingInv, PortTracksTimers, tvars
<1>7. ASSUME EpollReturns PROVE TimersTypeOK'
  <2>1. /\ UNCHANGED <<interrupt_fds_, epoll_fd_, now>> /\ HandleTimeout
        /\ events' = {[fd |-> fd, events |-> Reported(fd)] : fd \in ReadyFds}
    BY <1>7 DEF EpollReturns
  <2>2. events' = {}
    BY <1>4, <2>1
  <2>3. timeout_port_' \in {TimerPort, ClosedPort, NoPort}
    BY <2>1 DEF HandleTimeout, PortsInv, TimersTypeOK
  <2>4. inbox' \in Seq(TimerEvent)
    <3>1. inbox' = inbox \/ inbox' = Posted(timeout_port_, "timeout")
      BY <2>1 DEF HandleTimeout
    <3>2. Posted(timeout_port_, "timeout") \in Seq(TimerEvent)
      <4>1. inbox \in Seq(TimerEvent) /\ timeout_port_ \in {TimerPort, ClosedPort, NoPort}
        BY DEF PortsInv, TimersTypeOK
      <4>2. CASE timeout_port_ \in {NoPort, ClosedPort}
        BY <4>1, <4>2 DEF Posted
      <4>3. CASE timeout_port_ \notin {NoPort, ClosedPort}
        <5>1. [port |-> timeout_port_, message |-> "timeout"] \in TimerEvent
          BY <4>1, <4>3 DEF TimerEvent
        <5>. QED
          BY <4>1, <4>3, <5>1 DEF Posted
      <4>. QED
        BY <4>2, <4>3
    <3>. QED
      BY <3>1, <3>2 DEF PortsInv, TimersTypeOK
  <2>. QED
    BY <2>1, <2>2, <2>3, <2>4 DEF PortsInv, TimersTypeOK, tvars
<1>8. ASSUME TimerMessage PROVE TimersTypeOK'
  <2>1. /\ UNCHANGED <<epoll_fd_, now, events, inbox>> /\ timeout_port_' = msg.port
        /\ interrupt_fds_ # <<>> /\ interrupt_fds_' = Tail(interrupt_fds_)
    BY <1>8 DEF TimerMessage, GetInterruptMessage
  <2>2. timeout_port_' \in {TimerPort, ClosedPort, NoPort}
    BY <1>1, <1>8, <2>1 DEF TimerMessage, TimerCommand
  <2>3. interrupt_fds_' \in Seq(TimerCommand)
    BY <2>1 DEF PortsInv, TimersTypeOK
  <2>. QED
    BY <2>1, <2>2, <2>3 DEF PortsInv, TimersTypeOK, tvars
<1>9. ASSUME EpollWait PROVE TimersTypeOK'
  BY <1>9 DEF EpollWait, PortsInv, TimersTypeOK, tvars
<1>. QED
  BY <1>5, <1>6, <1>7, <1>8, <1>9 DEF PortsInv

LEMMA CreatePorts ==
  ASSUME PortsInv, NEW ms \in Delays, NEW repeating \in BOOLEAN, CreateTimer(ms, repeating)
  PROVE  PortsInv'
<1>1. PICK t \in Timers : /\ timer' \in [Timers -> TimerObject]
                          /\ _timers' = AddTimerToList(t, timer', _timers)
                          /\ arrivals' = Append(arrivals, t)
  BY NewTimerStep DEF PortsInv
<1>2. _timers' \in Seq(Timers) /\ arrivals' \in Seq(Timers)
  <2>1. _timers \in Seq(Timers) /\ arrivals \in Seq(Timers)
    BY DEF PortsInv, TimersTypeOK
  <2>2. AddTimerToList(t, timer', _timers) \in Seq(Timers)
    BY <1>1, <2>1, AddedTimer
  <2>. QED
    BY <1>1, <2>1, <2>2
<1>3. /\ UNCHANGED <<_handling_callbacks, pending_timers, running>> /\ NotifyEventHandler
      /\ UNCHANGED <<epoll_fd_, now, events>>
  BY DEF CreateTimer, Elsewhere
<1>. QED
  BY <1>1, <1>2, <1>3, NotifyStep DEF PortsInv, TimersTypeOK, HandlingInv, PortTracksTimers

LEMMA CancelPorts ==
  ASSUME PortsInv, NEW t \in Timers, Cancel(t)
  PROVE  PortsInv'
<1>1. /\ timer' = [timer EXCEPT ![t] = Cleared]
      /\ _timers' = Unlink(_timers, t) /\ arrivals' = Unlink(arrivals, t)
      /\ UNCHANGED <<_handling_callbacks, pending_timers, running>>
      /\ UNCHANGED <<epoll_fd_, now, events>>
  BY DEF Cancel, Elsewhere
<1>2. /\ timer' \in [Timers -> TimerObject] /\ _timers' \in Seq(Timers)
      /\ arrivals' \in Seq(Timers)
  BY <1>1, ObjectStep, UnlinkTimer, ZenonT(30) DEF PortsInv, TimersTypeOK
<1>3. CASE _timers # <<>> /\ _timers[1] = t
  <2>1. NotifyEventHandler
    BY <1>3 DEF Cancel
  <2>. QED
    BY <1>1, <1>2, <2>1, NotifyStep DEF PortsInv, TimersTypeOK, HandlingInv, PortTracksTimers
<1>4. CASE ~(_timers # <<>> /\ _timers[1] = t)
  <2>1. SendData(<<>>, {}) /\ UNCHANGED _receivePort
    BY <1>4 DEF Cancel
  <2>2. /\ interrupt_fds_' \in Seq(TimerCommand) /\ inbox' \in Seq(TimerEvent)
        /\ timeout_port_' \in {TimerPort, ClosedPort, NoPort}
    <3>1. <<>> \in Seq(TimerCommand)
      OBVIOUS
    <3>. QED
      BY <2>1, <3>1, SendTimers, ZenonT(30) DEF PortsInv
  <2>3. _timers' # <<>> <=> _timers # <<>>
    BY <1>1, <1>4, UnlinkTimer, ZenonT(30) DEF PortsInv, TimersTypeOK
  <2>. QED
    BY <1>1, <1>2, <2>1, <2>2, <2>3 DEF PortsInv, TimersTypeOK, HandlingInv, PortTracksTimers
<1>. QED
  BY <1>3, <1>4

LEMMA TimeoutPorts ==
  ASSUME PortsInv, Timeout
  PROVE  PortsInv'
<1>1. _timers \in Seq(Timers) /\ Due \in 0..Len(_timers)
  BY DueTimers DEF PortsInv, TimersTypeOK
<1>2. pending_timers' \in Seq(Timers) /\ _timers' \in Seq(Timers)
  BY <1>1 DEF Timeout
<1>3. inbox' \in Seq(TimerEvent)
  BY DEF Timeout, PortsInv, TimersTypeOK
<1>4. /\ UNCHANGED <<interrupt_fds_, epoll_fd_, now, timeout_port_, events, timer, running, arrivals>>
      /\ _handling_callbacks' = TRUE
  BY DEF Timeout, pollvars
<1>. QED
  BY <1>2, <1>3, <1>4 DEF PortsInv, TimersTypeOK, HandlingInv, PortTracksTimers

LEMMA CallPendingPorts ==
  ASSUME PortsInv, CallPending
  PROVE  PortsInv'
<1>1. pending_timers \in Seq(Timers) /\ pending_timers # <<>> /\ arrivals \in Seq(Timers)
  BY DEF CallPending, PortsInv, TimersTypeOK
<1>2. Head(pending_timers) \in Timers /\ Tail(pending_timers) \in Seq(Timers)
  BY <1>1
<1>3. arrivals' \in Seq(Timers)
  BY <1>1, <1>2, UnlinkTimer, ZenonT(30) DEF CallPending
<1>4. /\ pending_timers' \in Seq(Timers) /\ running' \in Timers \cup {NULL}
      /\ _handling_callbacks /\ _handling_callbacks' = _handling_callbacks
      /\ UNCHANGED <<ehvars, timer, _timers>>
  BY <1>2 DEF CallPending
<1>. QED
  BY <1>3, <1>4 DEF PortsInv, TimersTypeOK, HandlingInv, PortTracksTimers, ehvars, pollvars

LEMMA CallbackReturnsPorts ==
  ASSUME PortsInv, CallbackReturns
  PROVE  PortsInv'
<1>1. running \in Timers /\ _handling_callbacks
  BY DEF CallbackReturns, PortsInv, TimersTypeOK, HandlingInv
<1>2. timer' \in [Timers -> TimerObject] /\ _timers' \in Seq(Timers) /\ arrivals' \in Seq(Timers)
  <2>1. CASE timer[running]._repeating
    <3>1. /\ timer' = [timer EXCEPT ![running]._wakeupTime = @ + timer[running]._milliSeconds]
          /\ _timers' = AddTimerToList(running, timer', _timers)
          /\ arrivals' = Append(arrivals, running)
      BY <2>1, ZenonT(30) DEF CallbackReturns
    <3>2. timer' \in [Timers -> TimerObject]
      BY <1>1, <3>1, ObjectStep DEF PortsInv, TimersTypeOK
    <3>3. _timers \in Seq(Timers) /\ arrivals \in Seq(Timers)
      BY DEF PortsInv, TimersTypeOK
    <3>4. AddTimerToList(running, timer', _timers) \in Seq(Timers)
      BY <1>1, <3>2, <3>3, AddedTimer
    <3>. QED
      BY <1>1, <3>1, <3>2, <3>3, <3>4
  <2>2. CASE ~timer[running]._repeating
    BY <1>1, <2>2, ObjectStep, ZenonT(30) DEF CallbackReturns, PortsInv, TimersTypeOK
  <2>. QED
    BY <2>1, <2>2
<1>3. /\ running' = NULL /\ _handling_callbacks' = _handling_callbacks
      /\ UNCHANGED <<ehvars, pending_timers>>
  BY DEF CallbackReturns
<1>. QED
  BY <1>1, <1>2, <1>3
  DEF PortsInv, TimersTypeOK, HandlingInv, PortTracksTimers, ehvars, pollvars

LEMMA CallbacksDonePorts ==
  ASSUME PortsInv, CallbacksDone
  PROVE  PortsInv'
<1>1. /\ running = NULL /\ pending_timers = <<>> /\ NotifyEventHandler
      /\ UNCHANGED <<timer, _timers, pending_timers, running, arrivals, epoll_fd_, now, events>>
  BY DEF CallbacksDone, Elsewhere
<1>. QED
  BY <1>1, NotifyStep DEF PortsInv, TimersTypeOK, HandlingInv, PortTracksTimers

LEMMA CallbackThrowsPorts ==
  ASSUME PortsInv, CallbackThrows
  PROVE  PortsInv'
<1>1. /\ timer' = [t \in Timers |-> Cleared] /\ running' = NULL /\ _receivePort' = FALSE
      /\ _timers' = <<>> /\ pending_timers' = <<>> /\ arrivals' = <<>>
      /\ SendData(<<>>, {TimerPort}) /\ UNCHANGED <<epoll_fd_, now, events>>
  BY DEF CallbackThrows, Elsewhere
<1>2. timer' \in [Timers -> TimerObject] /\ <<>> \in Seq(Timers) /\ <<>> \in Seq(TimerCommand)
  BY <1>1 DEF Cleared, TimerObject
<1>3. /\ interrupt_fds_' \in Seq(TimerCommand) /\ inbox' \in Seq(TimerEvent)
      /\ timeout_port_' \in {TimerPort, ClosedPort, NoPort}
  BY <1>1, <1>2, SendTimers, ZenonT(30) DEF PortsInv
<1>. QED
  BY <1>1, <1>2, <1>3 DEF PortsInv, TimersTypeOK, HandlingInv, PortTracksTimers

LEMMA InitPorts ==
  ASSUME Init
  PROVE  PortsInv
<1>1. timer \in [Timers -> TimerObject]
  BY DEF Init, Cleared, TimerObject
<1>2. /\ <<>> \in Seq(Timers) /\ <<>> \in Seq(TimerCommand) /\ <<>> \in Seq(TimerEvent)
  OBVIOUS
<1>. QED
  BY <1>1, <1>2 DEF Init, EHInit, PortsInv, TimersTypeOK, HandlingInv, PortTracksTimers

LEMMA NextPorts ==
  ASSUME PortsInv, [Next]_vars
  PROVE  PortsInv'
<1>1. CASE Tick
  <2>1. UNCHANGED <<interrupt_fds_, epoll_fd_, inbox, pollvars, tvars>> /\ now' = now + 1
    BY <1>1 DEF Tick
  <2>. QED
    BY <2>1 DEF PortsInv, TimersTypeOK, HandlingInv, PortTracksTimers, tvars, pollvars
<1>2. CASE UNCHANGED vars
  BY <1>2
  DEF PortsInv, TimersTypeOK, HandlingInv, PortTracksTimers, vars, ehvars, tvars, pollvars
<1>. QED
  BY <1>1, <1>2, PollPorts, CreatePorts, CancelPorts, TimeoutPorts, CallPendingPorts,
     CallbackReturnsPorts, CallbacksDonePorts, CallbackThrowsPorts
  DEF Next, User, HandleTimeouts

\* The receive port of the timers is open exactly while timers are set, outside
\* of _handleTimeout, whatever timers are created, cancelled and called: it
\* neither keeps an isolate without timers alive nor is it missing.
THEOREM PortTracksAlways == Spec => []PortTracksTimers
<1>1. PortsInv => PortTracksTimers
  BY DEF PortsInv
<1>. QED
  BY <1>1, InitPorts, NextPorts, PTL DEF Spec

-----------------------------------------------------------------------------
(* The order of the timers: one lemma for each action.                     *)

\* What _addTimerToList does to a list that is in order: the timer comes after
\* those that wake up no later and before those that wake up later.
LEMMA AddedInOrder ==
  ASSUME NEW all \in [Timers -> TimerObject], NEW list \in Seq(Timers), NEW t \in Timers,
         \A a, b \in Timers : Ahead(list, a, b) => all[a]._wakeupTime <= all[b]._wakeupTime,
         NEW a, NEW b, Ahead(AddTimerToList(t, all, list), a, b)
  PROVE  \/ Ahead(list, a, b)
         \/ b = t /\ a \in Range(list) /\ all[a]._wakeupTime <= all[t]._wakeupTime
         \/ a = t /\ b \in Range(list) /\ all[t]._wakeupTime < all[b]._wakeupTime
<1>1. PICK k \in 0..Len(list) :
         /\ AddTimerToList(t, all, list) = Insert(list, k, t)
         /\ \A i \in 1..k : all[list[i]]._wakeupTime <= all[t]._wakeupTime
         /\ k < Len(list) => all[list[k + 1]]._wakeupTime > all[t]._wakeupTime
  BY AddTimer
<1>2. PICK n : n = Len(list)
  OBVIOUS
<1>3. n \in Nat /\ k \in 0..n /\ DOMAIN list = 1..n /\ \A i \in 1..n : list[i] \in Timers
  BY <1>2
<1>4. \/ Ahead(list, a, b)
      \/ b = t /\ \E i \in 1..k : a = list[i]
      \/ a = t /\ \E i \in k + 1..n : b = list[i]
  <2>1. Ahead(Insert(list, k, t), a, b)
    BY <1>1
  <2>2. \A x, y : Ahead(Insert(list, k, t), x, y) =>
                   \/ Ahead(list, x, y)
                   \/ y = t /\ \E i \in 1..k : x = list[i]
                   \/ x = t /\ \E i \in k + 1..Len(list) : y = list[i]
    BY InsertAhead
  <2>. QED
    BY <1>2, <2>1, <2>2
<1>5. ASSUME NEW i \in 1..k, a = list[i]
      PROVE  a \in Range(list) /\ all[a]._wakeupTime <= all[t]._wakeupTime
  <2>1. i \in DOMAIN list
    BY <1>3
  <2>. QED
    BY <1>1, <1>5, <2>1 DEF Range
<1>6. ASSUME NEW i \in k + 1..n, b = list[i]
      PROVE  b \in Range(list) /\ all[t]._wakeupTime < all[b]._wakeupTime
  <2>1. i \in DOMAIN list /\ k + 1 \in DOMAIN list /\ k < n
    BY <1>3
  <2>2. list[k + 1] \in Timers /\ b \in Timers /\ all[t]._wakeupTime < all[list[k + 1]]._wakeupTime
    BY <1>1, <1>2, <1>3, <1>6, <2>1
  <2>3. i = k + 1 \/ all[list[k + 1]]._wakeupTime <= all[b]._wakeupTime
    <3>1. i = k + 1 \/ k + 1 < i
      BY <1>3
    <3>2. k + 1 < i => Ahead(list, list[k + 1], b)
      BY <1>6, <2>1 DEF Ahead
    <3>. QED
      BY <2>2, <3>1, <3>2
  <2>4. /\ all[t]._wakeupTime \in Int /\ all[b]._wakeupTime \in Int
        /\ all[list[k + 1]]._wakeupTime \in Int
    BY <2>2 DEF TimerObject
  <2>5. b \in Range(list)
    BY <1>6, <2>1 DEF Range
  <2>. QED
    BY <1>6, <2>2, <2>3, <2>4, <2>5
<1>. QED
  BY <1>4, <1>5, <1>6

\* A timer that waits nowhere is enqueued: it was created, or it repeats.
LEMMA EnqueueOrder ==
  ASSUME OrderInv, NEW t \in Timers, t \notin Range(_timers), t \notin Range(pending_timers),
         timer' \in [Timers -> TimerObject], \A u \in Timers : u # t => timer'[u] = timer[u],
         timer'[t]._callback, _timers' = AddTimerToList(t, timer', _timers),
         arrivals' = Append(arrivals, t), pending_timers' = pending_timers,
         running' \in {running, NULL}, running' # t
  PROVE  ListsInv' /\ FifoOrder'
<1>1. /\ timer \in [Timers -> TimerObject] /\ _timers \in Seq(Timers)
      /\ pending_timers \in Seq(Timers) /\ arrivals \in Seq(Timers)
  BY DEF OrderInv, PortsInv, TimersTypeOK
<1>2. /\ Range(_timers) \subseteq Timers /\ Range(pending_timers) \subseteq Timers
  BY <1>1, Elements
<1>3. /\ _timers' \in Seq(Timers) /\ Range(_timers') = Range(_timers) \cup {t}
  BY <1>1, AddedTimer, ZenonT(30)
<1>4. arrivals' \in Seq(Timers) /\ Range(arrivals') = Range(arrivals) \cup {t}
  BY <1>1, AppendRange
<1>5. t \notin Range(arrivals)
  BY DEF OrderInv, ListsInv
<1>6. \A a, b \in Timers : Ahead(_timers, a, b) => /\ a \in Range(_timers) /\ b \in Range(_timers)
                                                  /\ a # t /\ b # t /\ Before(a, b)
  BY AheadRange DEF OrderInv, FifoOrder
<1>7. \A a, b \in Timers : Ahead(_timers, a, b) => timer'[a]._wakeupTime <= timer'[b]._wakeupTime
  <2>1. \A a \in Timers : timer[a]._wakeupTime \in Int
    BY <1>1 DEF TimerObject
  <2>2. \A a, b \in Timers : Before(a, b) => timer[a]._wakeupTime <= timer[b]._wakeupTime
    BY <2>1 DEF Before
  <2>. QED
    BY <1>6, <2>2
<1>8. ASSUME NEW a, NEW b, Ahead(_timers', a, b)
      PROVE  \/ Ahead(_timers, a, b)
             \/ b = t /\ a \in Range(_timers) /\ timer'[a]._wakeupTime <= timer'[t]._wakeupTime
             \/ a = t /\ b \in Range(_timers) /\ timer'[t]._wakeupTime < timer'[b]._wakeupTime
  <2>1. Ahead(AddTimerToList(t, timer', _timers), a, b)
    BY <1>8
  <2>. QED
    BY <1>1, <1>7, <2>1, AddedInOrder
<1>9. \A a, b : Ahead(arrivals', a, b) <=> Ahead(arrivals, a, b) \/ (b = t /\ a \in Range(arrivals))
  BY <1>1, AppendAhead
<1>10. ASSUME NEW a \in Timers, NEW b \in Timers, a # t, b # t, Before(a, b)
       PROVE  Before(a, b)'
  BY <1>9, <1>10 DEF Before
<1>11. FifoOrder'
  <2>1. ASSUME NEW a \in Timers, NEW b \in Timers, Ahead(_timers', a, b) PROVE Before(a, b)'
    <3>1. CASE Ahead(_timers, a, b)
      BY <1>6, <1>10, <3>1
    <3>2. CASE b = t /\ a \in Range(_timers) /\ timer'[a]._wakeupTime <= timer'[t]._wakeupTime
      <4>1. a \in Range(arrivals)
        BY <3>2 DEF OrderInv, ListsInv
      <4>2. Ahead(arrivals', a, b)
        BY <1>9, <3>2, <4>1
      <4>3. timer'[a]._wakeupTime \in Int /\ timer'[b]._wakeupTime \in Int
        BY DEF TimerObject
      <4>. QED
        BY <3>2, <4>2, <4>3 DEF Before
    <3>3. CASE a = t /\ b \in Range(_timers) /\ timer'[t]._wakeupTime < timer'[b]._wakeupTime
      BY <3>3 DEF Before
    <3>. QED
      BY <1>8, <2>1, <3>1, <3>2, <3>3
  <2>2. ASSUME NEW a \in Timers, NEW b \in Timers, Ahead(pending_timers', a, b),
               timer'[a]._callback, timer'[b]._callback
        PROVE  Before(a, b)'
    <3>1. Ahead(pending_timers, a, b)
      BY <2>2
    <3>2. a \in Range(pending_timers) /\ b \in Range(pending_timers)
      BY <3>1, AheadRange
    <3>3. a # t /\ b # t
      BY <3>2
    <3>4. timer[a]._callback /\ timer[b]._callback
      BY <2>2, <3>3
    <3>5. Before(a, b)
      BY <3>1, <3>4 DEF OrderInv, FifoOrder
    <3>. QED
      BY <1>10, <3>3, <3>5
  <2>. QED
    BY <2>1, <2>2 DEF FifoOrder
<1>12. IsInjective(_timers')
  <2>1. \A a \in Timers : ~Ahead(_timers, a, a)
    BY <1>1, AheadSelf DEF OrderInv, ListsInv
  <2>2. \A a \in Timers : ~Ahead(_timers', a, a)
    BY <1>8, <2>1
  <2>. QED
    BY <1>3, <2>2, AheadSelf
<1>13. IsInjective(arrivals')
  <2>1. \A a \in Timers : ~Ahead(arrivals, a, a)
    BY <1>1, AheadSelf DEF OrderInv, ListsInv
  <2>2. \A a \in Timers : ~Ahead(arrivals', a, a)
    BY <1>5, <1>9, <2>1
  <2>. QED
    BY <1>4, <2>2, AheadSelf, ZenonT(30)
<1>14. /\ \A u \in Range(_timers') : timer'[u]._callback
       /\ \A u \in Timers : timer'[u]._repeating => timer'[u]._callback
  BY <1>2, <1>3 DEF OrderInv, ListsInv
<1>15. Range(arrivals') = Range(_timers') \cup {u \in Range(pending_timers') : timer'[u]._callback}
  <2>1. \A u \in Range(pending_timers) : timer'[u] = timer[u]
    BY <1>2
  <2>2. Range(arrivals) = Range(_timers) \cup {u \in Range(pending_timers) : timer[u]._callback}
    BY DEF OrderInv, ListsInv
  <2>. QED
    BY <1>3, <1>4, <2>1, <2>2
<1>16. /\ Range(_timers') \cap Range(pending_timers') = {}
       /\ running' \notin Range(_timers') /\ running' \notin Range(pending_timers')
  BY <1>2, <1>3, TimersAssumption DEF OrderInv, ListsInv
<1>17. IsInjective(pending_timers')
  BY DEF OrderInv, ListsInv
<1>. QED
  BY <1>11, <1>12, <1>13, <1>14, <1>15, <1>16, <1>17 DEF ListsInv

LEMMA CreateOrder ==
  ASSUME OrderInv, NEW ms \in Delays, NEW repeating \in BOOLEAN, CreateTimer(ms, repeating)
  PROVE  ListsInv' /\ FifoOrder'
<1>1. PICK t \in Timers :
         /\ t # running /\ t \notin Range(_timers) /\ t \notin Range(pending_timers)
         /\ timer' = [timer EXCEPT ![t] =
                        [_callback |-> TRUE, _milliSeconds |-> ms,
                         _wakeupTime |-> now + ms, _repeating |-> repeating]]
         /\ timer' \in [Timers -> TimerObject]
         /\ _timers' = AddTimerToList(t, timer', _timers)
         /\ arrivals' = Append(arrivals, t)
  BY NewTimerStep DEF OrderInv, PortsInv
<1>2. /\ \A u \in Timers : u # t => timer'[u] = timer[u]
      /\ timer'[t]._callback
  BY <1>1 DEF OrderInv, PortsInv, TimersTypeOK
<1>3. pending_timers' = pending_timers /\ running' = running
  BY DEF CreateTimer
<1>. QED
  BY <1>1, <1>2, <1>3, EnqueueOrder, ZenonT(30)

LEMMA CancelOrder ==
  ASSUME OrderInv, NEW t \in Timers, Cancel(t)
  PROVE  ListsInv' /\ FifoOrder'
<1>1. /\ timer' = [timer EXCEPT ![t] = Cleared]
      /\ _timers' = Unlink(_timers, t) /\ arrivals' = Unlink(arrivals, t)
      /\ pending_timers' = pending_timers /\ running' = running
  BY DEF Cancel
<1>2. /\ timer \in [Timers -> TimerObject] /\ _timers \in Seq(Timers)
      /\ pending_timers \in Seq(Timers) /\ arrivals \in Seq(Timers)
      /\ IsInjective(_timers) /\ IsInjective(arrivals)
  BY DEF OrderInv, PortsInv, TimersTypeOK, ListsInv
<1>3. /\ Range(_timers) \subseteq Timers /\ Range(pending_timers) \subseteq Timers
  BY <1>2, Elements
<1>4. /\ IsInjective(_timers') /\ Range(_timers') = Range(_timers) \ {t}
      /\ \A a, b : Ahead(_timers', a, b) <=> Ahead(_timers, a, b) /\ t # a /\ t # b
  BY <1>1, <1>2, UnlinkAhead, ZenonT(30)
<1>5. /\ IsInjective(arrivals') /\ Range(arrivals') = Range(arrivals) \ {t}
      /\ \A a, b : Ahead(arrivals', a, b) <=> Ahead(arrivals, a, b) /\ t # a /\ t # b
  BY <1>1, <1>2, UnlinkAhead, ZenonT(30)
<1>6. /\ \A u \in Timers : u # t => timer'[u] = timer[u]
      /\ ~timer'[t]._callback /\ ~timer'[t]._repeating
  BY <1>1, <1>2 DEF Cleared
<1>7. ASSUME NEW a \in Timers, NEW b \in Timers, a # t, b # t, Before(a, b)
      PROVE  Before(a, b)'
  BY <1>5, <1>6, <1>7 DEF Before
<1>8. FifoOrder'
  <2>1. ASSUME NEW a \in Timers, NEW b \in Timers, Ahead(_timers', a, b) PROVE Before(a, b)'
    <3>1. Ahead(_timers, a, b) /\ a # t /\ b # t
      BY <1>4, <2>1
    <3>2. Before(a, b)
      BY <3>1 DEF OrderInv, FifoOrder
    <3>. QED
      BY <1>7, <3>1, <3>2
  <2>2. ASSUME NEW a \in Timers, NEW b \in Timers, Ahead(pending_timers', a, b),
               timer'[a]._callback, timer'[b]._callback
        PROVE  Before(a, b)'
    <3>1. a # t /\ b # t
      BY <1>6, <2>2
    <3>2. Ahead(pending_timers, a, b) /\ timer[a]._callback /\ timer[b]._callback
      BY <1>1, <1>6, <2>2, <3>1
    <3>3. Before(a, b)
      BY <3>2 DEF OrderInv, FifoOrder
    <3>. QED
      BY <1>7, <3>1, <3>3
  <2>. QED
    BY <2>1, <2>2 DEF FifoOrder
<1>9. Range(arrivals') = Range(_timers') \cup {u \in Range(pending_timers') : timer'[u]._callback}
  <2>1. Range(arrivals) = Range(_timers) \cup {u \in Range(pending_timers) : timer[u]._callback}
    BY DEF OrderInv, ListsInv
  <2>2. \A u \in Range(pending_timers) : timer'[u]._callback <=> timer[u]._callback /\ u # t
    BY <1>3, <1>6
  <2>3. pending_timers' = pending_timers
    BY <1>1
  <2>4. {u \in Range(pending_timers') : timer'[u]._callback}
          = {u \in Range(pending_timers) : timer[u]._callback} \ {t}
    BY <2>2, <2>3
  <2>. QED
    BY <1>4, <1>5, <2>1, <2>4
<1>10. /\ \A u \in Range(_timers') : timer'[u]._callback
       /\ \A u \in Timers : timer'[u]._repeating => timer'[u]._callback
  BY <1>3, <1>4, <1>6 DEF OrderInv, ListsInv
<1>11. /\ IsInjective(pending_timers') /\ Range(_timers') \cap Range(pending_timers') = {}
       /\ running' \notin Range(_timers') /\ running' \notin Range(pending_timers')
  BY <1>1, <1>4 DEF OrderInv, ListsInv
<1>. QED
  BY <1>4, <1>5, <1>8, <1>9, <1>10, <1>11 DEF ListsInv

\* An empty list has nothing in order.
LEMMA EmptyList ==
  /\ <<>> \in Seq(Timers) /\ IsInjective(<<>>) /\ Range(<<>>) = {}
  /\ \A a, b : ~Ahead(<<>>, a, b)
<1>1. <<>> \in Seq(Timers) /\ IsInjective(<<>>) /\ Range(<<>>) = {}
  BY DEF IsInjective, Range
<1>. QED
  BY <1>1, AheadRange

LEMMA TimeoutOrder ==
  ASSUME OrderInv, Timeout
  PROVE  ListsInv' /\ FifoOrder'
<1>1. PICK c, n : c = Due /\ n = Len(_timers)
  BY ZenonT(30)
<1>2. _timers \in Seq(Timers) /\ n \in Nat /\ c \in 0..n /\ DOMAIN _timers = 1..n
  BY <1>1, DueTimers DEF OrderInv, PortsInv, TimersTypeOK
<1>3. /\ pending_timers' = SubSeq(_timers, 1, c) /\ _timers' = SubSeq(_timers, c + 1, n)
      /\ UNCHANGED <<timer, running, arrivals>>
  BY <1>1 DEF Timeout
<1>4. /\ pending_timers' \in Seq(Timers)
      /\ \A x : x \in Range(pending_timers') <=> \E i \in 1..c : x = _timers[i]
      /\ \A a, b : Ahead(pending_timers', a, b) => Ahead(_timers, a, b)
  <2>1. 1 \in 1..Len(_timers) + 1 /\ c \in 0..Len(_timers)
    BY <1>1, <1>2
  <2>. QED
    BY <1>2, <1>3, <2>1, SubSeqAhead
<1>5. /\ _timers' \in Seq(Timers)
      /\ \A x : x \in Range(_timers') <=> \E i \in c + 1..n : x = _timers[i]
      /\ \A a, b : Ahead(_timers', a, b) => Ahead(_timers, a, b)
  <2>1. c + 1 \in 1..Len(_timers) + 1 /\ n \in 0..Len(_timers)
    BY <1>1, <1>2
  <2>. QED
    BY <1>2, <1>3, <2>1, SubSeqAhead
<1>6. IsInjective(_timers) /\ running = NULL /\ pending_timers = <<>>
  BY DEF Timeout, OrderInv, PortsInv, HandlingInv, ListsInv
<1>7. /\ IsInjective(_timers') /\ IsInjective(pending_timers')
  <2>1. \A a \in Timers : ~Ahead(_timers, a, a)
    BY <1>2, <1>6, AheadSelf
  <2>2. \A a \in Timers : ~Ahead(_timers', a, a) /\ ~Ahead(pending_timers', a, a)
    BY <1>4, <1>5, <2>1
  <2>. QED
    BY <1>4, <1>5, <2>2, AheadSelf
<1>8. Range(_timers') \cap Range(pending_timers') = {}
  <2>1. ASSUME NEW x, x \in Range(_timers'), x \in Range(pending_timers') PROVE FALSE
    <3>1. PICK i \in 1..c : x = _timers[i]
      BY <1>4, <2>1
    <3>2. PICK j \in c + 1..n : x = _timers[j]
      BY <1>5, <2>1
    <3>3. i \in DOMAIN _timers /\ j \in DOMAIN _timers /\ i # j
      BY <1>2
    <3>. QED
      BY <1>6, <3>1, <3>2, <3>3, ZenonT(30) DEF IsInjective
  <2>. QED
    BY <2>1
<1>9. Range(_timers') \cup Range(pending_timers') = Range(_timers)
  <2>1. ASSUME NEW i \in 1..n PROVE i \in 1..c \/ i \in c + 1..n
    BY <1>2
  <2>2. ASSUME NEW x, x \in Range(_timers) PROVE x \in Range(_timers') \cup Range(pending_timers')
    <3>1. PICK i \in 1..n : x = _timers[i]
      BY <1>2, <2>2 DEF Range
    <3>. QED
      BY <1>4, <1>5, <2>1, <3>1
  <2>3. \A i \in 1..c : i \in DOMAIN _timers
    BY <1>2
  <2>4. \A i \in c + 1..n : i \in DOMAIN _timers
    BY <1>2
  <2>5. ASSUME NEW x, x \in Range(_timers') \cup Range(pending_timers') PROVE x \in Range(_timers)
    BY <1>4, <1>5, <2>3, <2>4, <2>5, ZenonT(30) DEF Range
  <2>. QED
    BY <2>2, <2>5
<1>10. \A u \in Range(_timers) : timer[u]._callback /\ u \in Timers
  BY <1>2, Elements DEF OrderInv, ListsInv
<1>11. Range(arrivals') = Range(_timers') \cup {u \in Range(pending_timers') : timer'[u]._callback}
  <2>1. Range(arrivals) = Range(_timers)
    BY <1>6, EmptyList DEF OrderInv, ListsInv
  <2>2. {u \in Range(pending_timers') : timer'[u]._callback} = Range(pending_timers')
    BY <1>3, <1>9, <1>10
  <2>. QED
    BY <1>3, <1>9, <2>1, <2>2
<1>12. /\ \A u \in Range(_timers') : timer'[u]._callback
       /\ \A u \in Timers : timer'[u]._repeating => timer'[u]._callback
  BY <1>3, <1>9, <1>10 DEF OrderInv, ListsInv
<1>13. running' \notin Range(_timers') /\ running' \notin Range(pending_timers')
  BY <1>3, <1>6, <1>9, <1>10, TimersAssumption
<1>14. FifoOrder'
  BY <1>3, <1>4, <1>5 DEF OrderInv, FifoOrder, Before
<1>. QED
  BY <1>3, <1>7, <1>8, <1>11, <1>12, <1>13, <1>14 DEF OrderInv, ListsInv

\* The first element is taken away.
LEMMA TailAhead ==
  ASSUME NEW S, NEW q \in Seq(S), q # <<>>, NEW a, NEW b, Ahead(Tail(q), a, b)
  PROVE  Ahead(q, a, b)
<1>1. PICK p, n : p = Tail(q) /\ n = Len(q)
  BY ZenonT(30)
<1>2. /\ n \in Nat /\ DOMAIN q = 1..n /\ DOMAIN p = 1..n - 1
      /\ \A i \in 1..n - 1 : p[i] = q[i + 1]
  BY <1>1
<1>3. PICK i, j \in 1..n - 1 : i < j /\ p[i] = a /\ p[j] = b
  BY <1>1, <1>2 DEF Ahead
<1>4. i + 1 \in DOMAIN q /\ j + 1 \in DOMAIN q /\ i + 1 < j + 1
  BY <1>2, <1>3
<1>. QED
  BY <1>2, <1>3, <1>4 DEF Ahead

LEMMA CallPendingOrder ==
  ASSUME OrderInv, CallPending
  PROVE  ListsInv' /\ FifoOrder'
<1>1. PICK t : t = Head(pending_timers)
  OBVIOUS
<1>2. /\ pending_timers # <<>> /\ pending_timers' = Tail(pending_timers)
      /\ running' = IF timer[t]._callback THEN t ELSE NULL
      /\ arrivals' = Unlink(arrivals, t) /\ UNCHANGED <<timer, _timers>>
  BY <1>1 DEF CallPending
<1>3. /\ _timers \in Seq(Timers) /\ pending_timers \in Seq(Timers) /\ arrivals \in Seq(Timers)
      /\ IsInjective(pending_timers) /\ IsInjective(arrivals)
  BY DEF OrderInv, PortsInv, TimersTypeOK, ListsInv
<1>4. /\ t \in Timers /\ t \in Range(pending_timers) /\ IsInjective(pending_timers')
      /\ Range(pending_timers') = Range(pending_timers) \ {t}
  BY <1>1, <1>2, <1>3, TailLemma
<1>5. \A a, b : Ahead(pending_timers', a, b) => Ahead(pending_timers, a, b)
  BY <1>2, <1>3, TailAhead
<1>6. /\ IsInjective(arrivals') /\ Range(arrivals') = Range(arrivals) \ {t}
      /\ \A a, b : Ahead(arrivals', a, b) <=> Ahead(arrivals, a, b) /\ t # a /\ t # b
  BY <1>2, <1>3, <1>4, UnlinkAhead, ZenonT(30)
<1>7. t \notin Range(_timers)
  BY <1>4 DEF OrderInv, ListsInv
<1>8. ASSUME NEW a \in Timers, NEW b \in Timers, a # t, b # t, Before(a, b)
      PROVE  Before(a, b)'
  BY <1>2, <1>6, <1>8 DEF Before
<1>9. FifoOrder'
  <2>1. ASSUME NEW a \in Timers, NEW b \in Timers, Ahead(_timers', a, b) PROVE Before(a, b)'
    <3>1. Ahead(_timers, a, b)
      BY <1>2, <2>1
    <3>2. a # t /\ b # t
      BY <1>7, <3>1, AheadRange
    <3>3. Before(a, b)
      BY <3>1 DEF OrderInv, FifoOrder
    <3>. QED
      BY <1>8, <3>2, <3>3
  <2>2. ASSUME NEW a \in Timers, NEW b \in Timers, Ahead(pending_timers', a, b),
               timer'[a]._callback, timer'[b]._callback
        PROVE  Before(a, b)'
    <3>1. a # t /\ b # t
      BY <1>4, <2>2, AheadRange
    <3>2. Ahead(pending_timers, a, b) /\ timer[a]._callback /\ timer[b]._callback
      BY <1>2, <1>5, <2>2
    <3>3. Before(a, b)
      BY <3>2 DEF OrderInv, FifoOrder
    <3>. QED
      BY <1>8, <3>1, <3>3
  <2>. QED
    BY <2>1, <2>2 DEF FifoOrder
<1>10. Range(arrivals') = Range(_timers') \cup {u \in Range(pending_timers') : timer'[u]._callback}
  <2>1. Range(arrivals) = Range(_timers) \cup {u \in Range(pending_timers) : timer[u]._callback}
    BY DEF OrderInv, ListsInv
  <2>2. timer' = timer /\ _timers' = _timers
    BY <1>2
  <2>. QED
    BY <1>4, <1>6, <1>7, <2>1, <2>2
<1>11. /\ Range(_timers') \cap Range(pending_timers') = {}
       /\ running' \notin Range(_timers') /\ running' \notin Range(pending_timers')
  <2>1. running' \in {t, NULL}
    BY <1>2
  <2>2. NULL \notin Range(_timers) /\ NULL \notin Range(pending_timers)
    BY <1>3, Elements, TimersAssumption
  <2>. QED
    BY <1>2, <1>4, <1>7, <2>1, <2>2 DEF OrderInv, ListsInv
<1>. QED
  BY <1>2, <1>4, <1>6, <1>9, <1>10, <1>11 DEF OrderInv, ListsInv

LEMMA CallbackReturnsOrder ==
  ASSUME OrderInv, CallbackReturns
  PROVE  ListsInv' /\ FifoOrder'
<1>1. PICK t : t = running
  OBVIOUS
<1>2. /\ t \in Timers /\ t # NULL /\ running' = NULL /\ pending_timers' = pending_timers
      /\ timer \in [Timers -> TimerObject]
  BY <1>1 DEF CallbackReturns, OrderInv, PortsInv, TimersTypeOK
<1>3. t \notin Range(_timers) /\ t \notin Range(pending_timers)
  BY <1>1 DEF OrderInv, ListsInv
<1>4. CASE timer[t]._repeating
  <2>1. /\ timer' = [timer EXCEPT ![t]._wakeupTime = @ + timer[t]._milliSeconds]
        /\ _timers' = AddTimerToList(t, timer', _timers) /\ arrivals' = Append(arrivals, t)
    BY <1>1, <1>4, ZenonT(30) DEF CallbackReturns
  <2>2. timer' \in [Timers -> TimerObject]
    BY <1>2, <2>1, ObjectStep
  <2>3. timer[t]._callback
    BY <1>2, <1>4 DEF OrderInv, ListsInv
  <2>4. timer'[t]._callback /\ \A u \in Timers : u # t => timer'[u] = timer[u]
    BY <1>2, <2>1, <2>3 DEF TimerObject
  <2>. QED
    BY <1>2, <1>3, <2>1, <2>2, <2>4, EnqueueOrder
<1>5. CASE ~timer[t]._repeating
  <2>1. timer' = [timer EXCEPT ![t] = Cleared] /\ UNCHANGED <<_timers, arrivals>>
    BY <1>1, <1>5 DEF CallbackReturns
  <2>2. /\ \A u \in Timers : u # t => timer'[u] = timer[u]
        /\ ~timer'[t]._repeating
    BY <1>2, <2>1 DEF Cleared
  <2>3. /\ Range(_timers) \subseteq Timers /\ Range(pending_timers) \subseteq Timers
    BY Elements DEF OrderInv, PortsInv, TimersTypeOK
  <2>4. \A u \in Range(_timers) \cup Range(pending_timers) : timer'[u] = timer[u]
    BY <1>3, <2>2, <2>3
  <2>5. ASSUME NEW a \in Timers, NEW b \in Timers,
               \/ Ahead(_timers', a, b)
               \/ Ahead(pending_timers', a, b) /\ timer'[a]._callback /\ timer'[b]._callback
        PROVE  Before(a, b)'
    <3>1. Ahead(_timers, a, b) \/ Ahead(pending_timers, a, b)
      BY <1>2, <2>1, <2>5
    <3>2. a \in Range(_timers) \cup Range(pending_timers) /\ b \in Range(_timers) \cup Range(pending_timers)
      BY <3>1, AheadRange
    <3>3. timer'[a] = timer[a] /\ timer'[b] = timer[b]
      BY <2>4, <3>2
    <3>4. Before(a, b)
      BY <1>2, <2>1, <2>5, <3>3 DEF OrderInv, FifoOrder
    <3>. QED
      BY <2>1, <3>3, <3>4 DEF Before
  <2>6. FifoOrder'
    BY <2>5 DEF FifoOrder
  <2>7. Range(arrivals') = Range(_timers') \cup {u \in Range(pending_timers') : timer'[u]._callback}
    <3>1. {u \in Range(pending_timers) : timer'[u]._callback}
            = {u \in Range(pending_timers) : timer[u]._callback}
      BY <2>4
    <3>. QED
      BY <1>2, <2>1, <3>1 DEF OrderInv, ListsInv
  <2>8. /\ \A u \in Range(_timers') : timer'[u]._callback
        /\ \A u \in Timers : timer'[u]._repeating => timer'[u]._callback
    BY <2>1, <2>2, <2>4 DEF OrderInv, ListsInv
  <2>9. running' \notin Range(_timers') /\ running' \notin Range(pending_timers')
    BY <1>2, <2>1, <2>3, TimersAssumption
  <2>. QED
    BY <1>2, <2>1, <2>6, <2>7, <2>8, <2>9 DEF OrderInv, ListsInv
<1>. QED
  BY <1>4, <1>5

LEMMA NextOrder ==
  ASSUME OrderInv, [Next]_vars
  PROVE  OrderInv'
<1>1. PortsInv'
  BY NextPorts DEF OrderInv
<1>2. ASSUME UNCHANGED <<timer, _timers, pending_timers, running, arrivals>>
      PROVE  ListsInv' /\ FifoOrder'
  BY <1>2, ZenonT(30) DEF OrderInv, ListsInv, FifoOrder, Before
<1>3. ASSUME CallbackThrows PROVE ListsInv' /\ FifoOrder'
  <2>1. /\ timer' = [t \in Timers |-> Cleared] /\ running' = NULL
        /\ _timers' = <<>> /\ pending_timers' = <<>> /\ arrivals' = <<>>
    BY <1>3 DEF CallbackThrows
  <2>2. FifoOrder'
    BY <2>1, EmptyList DEF FifoOrder
  <2>3. \A t \in Timers : ~timer'[t]._repeating
    BY <2>1 DEF Cleared
  <2>. QED
    BY <2>1, <2>2, <2>3, EmptyList DEF ListsInv
<1>4. ASSUME (Poll /\ UNCHANGED tvars) \/ Tick \/ CallbacksDone \/ UNCHANGED vars
      PROVE  ListsInv' /\ FifoOrder'
  <2>1. UNCHANGED <<timer, _timers, pending_timers, running, arrivals>>
    BY <1>4 DEF Tick, CallbacksDone, tvars, vars
  <2>. QED
    BY <1>2, <2>1
<1>5. ListsInv' /\ FifoOrder'
  BY <1>3, <1>4, CreateOrder, CancelOrder, TimeoutOrder, CallPendingOrder, CallbackReturnsOrder
  DEF Next, User, HandleTimeouts
<1>. QED
  BY <1>1, <1>5 DEF OrderInv

LEMMA InitOrder ==
  ASSUME Init
  PROVE  OrderInv
<1>1. /\ timer = [t \in Timers |-> Cleared] /\ running = NULL
      /\ _timers = <<>> /\ pending_timers = <<>> /\ arrivals = <<>>
  BY DEF Init
<1>2. FifoOrder
  BY <1>1, EmptyList DEF FifoOrder
<1>3. \A t \in Timers : ~timer[t]._repeating
  BY <1>1 DEF Cleared
<1>4. ListsInv
  BY <1>1, <1>3, EmptyList DEF ListsInv
<1>. QED
  BY <1>2, <1>4, InitPorts DEF OrderInv

\* Timers are called by wakeup time and, at the same time, in the order in which
\* they were enqueued: that of the calls of the constructor and of the returns of
\* repeating timers.  Callbacks that create and cancel timers do not change it.
THEOREM FifoAlways == Spec => []FifoOrder
<1>1. OrderInv => FifoOrder
  BY DEF OrderInv
<1>. QED
  BY <1>1, InitOrder, NextOrder, PTL DEF Spec

-----------------------------------------------------------------------------
(* The wakeup of the first timer.                                          *)

\* Each timer keeps to its delay, and a pending one is due.
LEMMA NextTimes ==
  ASSUME Delays \subseteq Nat, OrderInv, TimesInv, [Next]_vars
  PROVE  TimesInv'
<1>0. /\ now \in Nat /\ timer \in [Timers -> TimerObject] /\ _timers \in Seq(Timers)
      /\ pending_timers \in Seq(Timers) /\ running \in Timers \cup {NULL}
  BY DEF OrderInv, PortsInv, TimersTypeOK
<1>1. \A t \in Timers :
        /\ timer[t]._wakeupTime \in Nat
        /\ timer[t]._milliSeconds \in Delays \cup {0} /\ timer[t]._milliSeconds \in Nat
        /\ timer[t]._wakeupTime <= now + timer[t]._milliSeconds
        /\ t = running \/ t \in Range(pending_timers) => timer[t]._wakeupTime <= now
  <2>1. \A d \in Delays \cup {0} : d \in Nat
    OBVIOUS
  <2>. QED
    BY <2>1, ZenonT(30) DEF TimesInv
<1>2. Cleared._wakeupTime = 0 /\ Cleared._milliSeconds = 0
  BY DEF Cleared
<1>3. ASSUME UNCHANGED <<timer, running, pending_timers>>, now' \in {now, now + 1}
      PROVE  TimesInv'
  <2>1. now' \in Nat /\ now <= now'
    BY <1>0, <1>3
  <2>2. ASSUME NEW t \in Timers
        PROVE  /\ timer[t]._wakeupTime <= now' + timer[t]._milliSeconds
               /\ t = running \/ t \in Range(pending_timers) => timer[t]._wakeupTime <= now'
    BY <1>0, <1>1, <2>1
  <2>. QED
    BY <1>1, <1>3, <2>2 DEF TimesInv
<1>4. ASSUME Poll, UNCHANGED tvars PROVE TimesInv'
  <2>1. EpollReturns \/ TimerMessage \/ EpollWait
    BY <1>4, PollPorts DEF OrderInv
  <2>2. now' = now
    BY <2>1, ZenonT(30) DEF EpollReturns, TimerMessage, GetInterruptMessage, EpollWait
  <2>. QED
    BY <1>3, <1>4, <2>2 DEF tvars
<1>5. ASSUME NEW ms \in Delays, NEW repeating \in BOOLEAN, CreateTimer(ms, repeating)
      PROVE  TimesInv'
  <2>1. PICK t \in Timers :
           /\ t # running /\ t \notin Range(pending_timers)
           /\ timer' = [timer EXCEPT ![t] =
                          [_callback |-> TRUE, _milliSeconds |-> ms,
                           _wakeupTime |-> now + ms, _repeating |-> repeating]]
    BY <1>5, NewTimerStep DEF OrderInv, PortsInv
  <2>2. UNCHANGED <<running, pending_timers, now>>
    BY <1>5 DEF CreateTimer, Elsewhere
  <2>3. /\ \A u \in Timers : u # t => timer'[u] = timer[u]
        /\ timer'[t]._wakeupTime = now + ms /\ timer'[t]._milliSeconds = ms
    BY <1>0, <2>1
  <2>4. now + ms \in Nat /\ now + ms <= now + ms
    BY <1>0
  <2>. QED
    BY <1>1, <2>1, <2>2, <2>3, <2>4 DEF TimesInv
<1>6. ASSUME NEW t \in Timers, timer' = [timer EXCEPT ![t] = Cleared],
             UNCHANGED <<pending_timers, now>>, running' \in {running, NULL}
      PROVE  TimesInv'
  <2>1. /\ \A u \in Timers : u # t => timer'[u] = timer[u]
        /\ timer'[t]._wakeupTime = 0 /\ timer'[t]._milliSeconds = 0
    BY <1>0, <1>2, <1>6
  <2>2. \A u \in Timers : u = running' => u = running
    BY <1>6, TimersAssumption, ZenonT(30)
  <2>. QED
    BY <1>0, <1>1, <1>6, <2>1, <2>2 DEF TimesInv
<1>7. ASSUME NEW t \in Timers, Cancel(t) PROVE TimesInv'
  BY <1>6, <1>7, ZenonT(30) DEF Cancel, Elsewhere
<1>8. ASSUME Timeout PROVE TimesInv'
  <2>1. PICK c : c = Due
    OBVIOUS
  <2>2. c \in 0..Len(_timers) /\ \A i \in 1..c : timer[_timers[i]]._wakeupTime <= now
    BY <2>1, DueTimers DEF OrderInv, PortsInv
  <2>3. /\ pending_timers' = SubSeq(_timers, 1, c)
        /\ UNCHANGED <<timer, running, now>>
    BY <1>8, <2>1 DEF Timeout
  <2>4. ASSUME NEW t \in Range(pending_timers') PROVE timer[t]._wakeupTime <= now
    <3>1. 1 \in 1..Len(_timers) + 1
      BY <1>0
    <3>2. \A x : x \in Range(SubSeq(_timers, 1, c)) <=> \E i \in 1..c : x = _timers[i]
      BY <1>0, <2>2, <3>1, SubSeqAhead
    <3>. QED
      BY <2>2, <2>3, <3>2
  <2>. QED
    BY <1>1, <2>3, <2>4 DEF TimesInv
<1>9. ASSUME CallPending PROVE TimesInv'
  <2>1. /\ pending_timers # <<>> /\ pending_timers' = Tail(pending_timers)
        /\ running' = Head(pending_timers) \/ running' = NULL
        /\ UNCHANGED <<timer, now>>
    BY <1>9 DEF CallPending, ehvars
  <2>2. Head(pending_timers) \in Range(pending_timers)
        /\ Range(Tail(pending_timers)) \subseteq Range(pending_timers)
    BY <1>0, <2>1, TailLemma
  <2>3. \A t \in Timers : t = running' \/ t \in Range(pending_timers') => t \in Range(pending_timers)
    BY <2>1, <2>2, TimersAssumption
  <2>. QED
    BY <1>1, <2>1, <2>3 DEF TimesInv
<1>10. ASSUME CallbackReturns PROVE TimesInv'
  <2>1. /\ running \in Timers /\ running' = NULL /\ UNCHANGED <<pending_timers, now>>
    BY <1>0, <1>10 DEF CallbackReturns, ehvars
  <2>2. CASE ~timer[running]._repeating
    BY <1>6, <1>10, <2>1, <2>2 DEF CallbackReturns
  <2>3. CASE timer[running]._repeating
    <3>1. timer' = [timer EXCEPT ![running]._wakeupTime = @ + timer[running]._milliSeconds]
      BY <1>10, <2>3 DEF CallbackReturns
    <3>2. /\ \A u \in Timers : u # running => timer'[u] = timer[u]
          /\ timer'[running]._wakeupTime = timer[running]._wakeupTime + timer[running]._milliSeconds
          /\ timer'[running]._milliSeconds = timer[running]._milliSeconds
      BY <1>0, <2>1, <3>1 DEF TimerObject
    <3>3. running \notin Range(pending_timers)
      BY DEF OrderInv, ListsInv
    <3>4. \A t \in Timers : t # running'
      BY <2>1, TimersAssumption
    <3>. QED
      BY <1>0, <1>1, <2>1, <3>2, <3>3, <3>4 DEF TimesInv
  <2>. QED
    BY <2>2, <2>3
<1>11. ASSUME CallbackThrows PROVE TimesInv'
  <2>1. /\ timer' = [t \in Timers |-> Cleared] /\ running' = NULL /\ pending_timers' = <<>>
        /\ now' = now
    BY <1>11 DEF CallbackThrows, Elsewhere
  <2>2. \A t \in Timers : t # running' /\ t \notin Range(pending_timers')
    BY <2>1, EmptyList, TimersAssumption
  <2>. QED
    BY <1>0, <1>2, <2>1, <2>2 DEF TimesInv
<1>12. ASSUME Tick \/ CallbacksDone \/ UNCHANGED vars PROVE TimesInv'
  <2>1. UNCHANGED <<timer, running, pending_timers>> /\ now' \in {now, now + 1}
    BY <1>12 DEF Tick, CallbacksDone, Elsewhere, tvars, vars, ehvars
  <2>. QED
    BY <1>3, <2>1
<1>. QED
  BY <1>4, <1>5, <1>7, <1>8, <1>9, <1>10, <1>11, <1>12 DEF Next, User, HandleTimeouts

LEMMA InitTimes ==
  ASSUME Init
  PROVE  TimesInv
<1>1. timer = [t \in Timers |-> Cleared] /\ running = NULL /\ pending_timers = <<>> /\ now = 0
  BY DEF Init, EHInit
<1>2. \A t \in Timers : t # running /\ t \notin Range(pending_timers)
  BY <1>1, EmptyList, TimersAssumption
<1>. QED
  BY <1>1, <1>2 DEF TimesInv, Cleared

\* No callback is called before the wakeup time of its timer, though a timeout
\* that was posted for another timer, since cancelled, may still arrive.
THEOREM NeverEarly == Delays \subseteq Nat => (Spec => []NotEarly)
<1>. SUFFICES ASSUME Delays \subseteq Nat PROVE Spec => []NotEarly
  OBVIOUS
<1>1. Init => OrderInv /\ TimesInv
  BY InitOrder, InitTimes
<1>2. OrderInv /\ TimesInv /\ [Next]_vars => OrderInv' /\ TimesInv'
  BY NextOrder, NextTimes
<1>3. OrderInv /\ TimesInv => NotEarly
  BY DEF OrderInv, PortsInv, TimersTypeOK, TimesInv, NotEarly
<1>. QED
  BY <1>1, <1>2, <1>3, PTL DEF Spec

\* A call of _notifyEventHandler plans the wakeup of the first timer.
LEMMA NotifyPlans ==
  ASSUME PortsInv, timer' \in [Timers -> TimerObject], _timers' \in Seq(Timers),
         NotifyEventHandler
  PROVE  FirstPlanned'
<1>1. ASSUME ~_handling_callbacks', _timers' # <<>>
      PROVE  Planned(timer[_timers[1]]._wakeupTime)'
  BY <1>1, NotifyStep DEF PortsInv, Planned
<1>. QED
  BY <1>1 DEF FirstPlanned

\* Poll: the event handler reads the commands, posts when the first timer is due
\* and otherwise does not sleep past it.
LEMMA PollPlans ==
  ASSUME DelaysFit, WakeupInv, Poll, UNCHANGED tvars
  PROVE  FirstPlanned'
<1>. SUFFICES ASSUME ~_handling_callbacks, _timers # <<>>
              PROVE  Planned(timer[_timers[1]]._wakeupTime)'
  BY DEF FirstPlanned, tvars
<1>1. PICK t, first : t = _timers[1] /\ first = timer[t]._wakeupTime
  OBVIOUS
<1>2. t \in Timers /\ now \in Nat /\ interrupt_fds_ \in Seq(TimerCommand)
  BY <1>1 DEF WakeupInv, OrderInv, PortsInv, TimersTypeOK
<1>3. /\ first \in Nat /\ timer[t]._milliSeconds \in Delays \cup {0}
      /\ first <= now + timer[t]._milliSeconds
  BY <1>1, <1>2 DEF WakeupInv, TimesInv
<1>4. Planned(first)
  BY <1>1 DEF WakeupInv, FirstPlanned
<1>5. timer'[_timers'[1]]._wakeupTime = first
  BY <1>1 DEF tvars
<1>6. EpollReturns \/ TimerMessage \/ EpollWait
  BY PollPorts DEF WakeupInv, OrderInv
<1>7. first # kInfinityTimeout
  BY <1>3 DEF kInfinityTimeout
<1>8. CASE EpollReturns
  <2>1. HandleTimeout /\ UNCHANGED <<interrupt_fds_, now>>
    BY <1>8 DEF EpollReturns
  <2>2. pc' # "wait"
    BY <1>8 DEF EpollReturns
  <2>3. CASE timeout_ # kInfinityTimeout /\ timeout_ <= now
    <3>1. inbox' = Posted(timeout_port_, "timeout")
      BY <2>1, <2>3 DEF HandleTimeout
    <3>2. inbox \in Seq(TimerEvent)
      BY DEF WakeupInv, OrderInv, PortsInv, TimersTypeOK
    <3>3. inbox # <<>> \/ timeout_port_ = TimerPort => inbox' # <<>>
      <4>1. inbox' = inbox \/ inbox' = Append(inbox, [port |-> timeout_port_, message |-> "timeout"])
        BY <3>1 DEF Posted
      <4>2. timeout_port_ = TimerPort =>
              inbox' = Append(inbox, [port |-> timeout_port_, message |-> "timeout"])
        BY <3>1, TimersAssumption DEF Posted
      <4>3. Append(inbox, [port |-> timeout_port_, message |-> "timeout"]) # <<>>
        BY <3>2
      <4>. QED
        BY <4>1, <4>2, <4>3
    <3>. QED
      BY <1>4, <1>5, <2>1, <3>3 DEF Planned
  <2>4. CASE ~(timeout_ # kInfinityTimeout /\ timeout_ <= now)
    <3>1. UNCHANGED <<inbox, timeout_, timeout_port_>>
      BY <2>1, <2>4 DEF HandleTimeout
    <3>. QED
      BY <1>4, <1>5, <2>1, <2>2, <3>1 DEF Planned
  <2>. QED
    BY <2>3, <2>4
<1>9. CASE TimerMessage
  <2>1. /\ pc = "interrupt" /\ interrupt_fds_ # <<>> /\ interrupt_fds_' = Tail(interrupt_fds_)
        /\ UNCHANGED <<pc, inbox>> /\ timeout_' = msg.data /\ timeout_port_' = msg.port
    BY <1>9 DEF TimerMessage, GetInterruptMessage
  <2>2. CASE inbox # <<>>
    BY <1>5, <2>1, <2>2 DEF Planned
  <2>3. CASE inbox = <<>>
    <3>1. interrupt_fds_[Len(interrupt_fds_)] = InterruptMessage(kTimerId, TimerPort, first)
      BY <1>4, <2>1, <2>3 DEF Planned
    <3>2. CASE interrupt_fds_' = <<>>
      <4>1. msg = interrupt_fds_[Len(interrupt_fds_)]
        <5>1. Len(interrupt_fds_) = 1
          <6>1. PICK m, n : m = Len(Tail(interrupt_fds_)) /\ n = Len(interrupt_fds_)
            BY ZenonT(30)
          <6>2. m = n - 1 /\ n \in Nat
            BY <1>2, <2>1, <6>1, TailLemma
          <6>3. Tail(interrupt_fds_) = <<>>
            BY <2>1, <3>2, ZenonT(30)
          <6>4. Len(<<>>) = 0
            OBVIOUS
          <6>5. m = 0
            BY <6>1, <6>3, <6>4, ZenonT(30)
          <6>6. n = 1
            BY <6>2, <6>5
          <6>. QED
            BY <6>1, <6>6, ZenonT(30)
        <5>. QED
          BY <1>2, <2>1, <5>1 DEF msg
      <4>2. timeout_' = first /\ timeout_port_' = TimerPort
        BY <2>1, <3>1, <4>1 DEF InterruptMessage
      <4>. QED
        BY <1>5, <2>1, <3>2, <4>2 DEF Planned
    <3>3. CASE interrupt_fds_' # <<>>
      <4>1. interrupt_fds_'[Len(interrupt_fds_')] = interrupt_fds_[Len(interrupt_fds_)]
        BY <1>2, <2>1, <3>3
      <4>. QED
        BY <1>5, <3>1, <3>3, <4>1 DEF Planned
    <3>. QED
      BY <3>2, <3>3
  <2>. QED
    BY <2>2, <2>3
<1>10. CASE EpollWait
  <2>1. interrupt_fds_ = <<>> /\ UNCHANGED <<interrupt_fds_, timeout_, timeout_port_, now, inbox>>
    BY <1>10 DEF EpollWait
  <2>2. CASE inbox # <<>>
    BY <1>5, <2>1, <2>2 DEF Planned
  <2>3. CASE inbox = <<>>
    <3>1. timeout_ = first /\ timeout_port_ = TimerPort
      BY <1>4, <2>1, <2>3 DEF Planned
    <3>2. PICK millis : millis = IF first < now THEN 0 ELSE first - now
      OBVIOUS
    <3>3. deadline' = IF ToInt(millis) < 0 THEN NULL ELSE now + ToInt(millis)
      BY <1>7, <1>10, <3>1, <3>2 DEF EpollWait
    <3>4. millis \in Nat /\ ToInt(millis) = millis
      <4>1. timer[t]._milliSeconds \in Nat
        <5>1. Delays \subseteq Nat
          BY DEF DelaysFit
        <5>2. \A d \in Delays \cup {0} : d \in Nat
          BY <5>1
        <5>. QED
          BY <1>3, <5>2
      <4>2. millis \in 0..timer[t]._milliSeconds
        BY <1>2, <1>3, <3>2, <4>1
      <4>. QED
        BY <1>3, <4>1, <4>2 DEF DelaysFit
    <3>5. deadline' = now + millis
      BY <3>3, <3>4
    <3>6. deadline' \in Int /\ (deadline' = first \/ deadline' <= now')
      BY <1>2, <1>3, <2>1, <3>2, <3>4, <3>5
    <3>. QED
      BY <1>5, <2>1, <3>1, <3>6 DEF Planned
  <2>. QED
    BY <2>2, <2>3
<1>. QED
  BY <1>6, <1>8, <1>9, <1>10

\* Cancelling another timer does not change what is planned for the first one.
LEMMA CancelPlans ==
  ASSUME WakeupInv, NEW t \in Timers, Cancel(t)
  PROVE  FirstPlanned'
<1>1. /\ timer' = [timer EXCEPT ![t] = Cleared] /\ _timers' = Unlink(_timers, t)
      /\ UNCHANGED <<_handling_callbacks, now, timeout_, pc, deadline>>
  BY DEF Cancel, Elsewhere
<1>2. /\ timer \in [Timers -> TimerObject] /\ _timers \in Seq(Timers) /\ PortsInv
  BY DEF WakeupInv, OrderInv, PortsInv, TimersTypeOK
<1>3. timer' \in [Timers -> TimerObject] /\ _timers' \in Seq(Timers)
  BY <1>1, <1>2, ObjectStep, UnlinkTimer, ZenonT(30)
<1>4. CASE _timers # <<>> /\ _timers[1] = t
  <2>1. NotifyEventHandler
    BY <1>4 DEF Cancel
  <2>. QED
    BY <1>2, <1>3, <2>1, NotifyPlans
<1>5. CASE _timers = <<>>
  BY <1>1, <1>2, <1>5, UnlinkTimer, ZenonT(30) DEF FirstPlanned
<1>6. CASE _timers # <<>> /\ _timers[1] # t
  <2>1. SendData(<<>>, {})
    BY <1>6 DEF Cancel
  <2>2. <<>> \in Seq(TimerCommand) /\ interrupt_fds_ \in Seq(TimerCommand)
    BY <1>2 DEF PortsInv, TimersTypeOK
  <2>3. /\ interrupt_fds_' = interrupt_fds_ \o <<>> /\ timeout_port_' = timeout_port_
        /\ Range(inbox') = Range(inbox) /\ inbox' \in Seq(TimerEvent)
    BY <1>2, <2>1, <2>2, SendTimers, ZenonT(30) DEF PortsInv
  <2>4. interrupt_fds_' = interrupt_fds_
    BY <2>2, <2>3
  <2>5. inbox # <<>> => inbox' # <<>>
    <3>1. inbox \in Seq(TimerEvent)
      BY <1>2 DEF PortsInv, TimersTypeOK
    <3>2. inbox # <<>> => \E m : m \in Range(inbox)
      <4>1. inbox # <<>> => 1 \in DOMAIN inbox
        BY <3>1
      <4>. QED
        BY <4>1 DEF Range
    <3>. QED
      BY <2>3, <3>2, EmptyList
  <2>6. _timers'[1] = _timers[1] /\ timer'[_timers'[1]] = timer[_timers[1]]
    <3>1. _timers'[1] = _timers[1] /\ _timers[1] \in Timers
      <4>1. Unlink(_timers, t)[1] = _timers[1]
        BY <1>2, <1>6, UnlinkTimer, ZenonT(30)
      <4>2. _timers[1] \in Timers
        BY <1>2, <1>6
      <4>. QED
        BY <1>1, <4>1, <4>2
    <3>. QED
      BY <1>1, <1>2, <1>6, <3>1
  <2>7. ASSUME ~_handling_callbacks' PROVE Planned(timer[_timers[1]]._wakeupTime)'
    <3>1. Planned(timer[_timers[1]]._wakeupTime)
      BY <1>1, <1>6, <2>7 DEF WakeupInv, FirstPlanned
    <3>2. PICK first : first = timer[_timers[1]]._wakeupTime
      OBVIOUS
    <3>3. Planned(first) /\ timer'[_timers'[1]]._wakeupTime = first
      BY <2>6, <3>1, <3>2
    <3>4. /\ interrupt_fds_' = interrupt_fds_ /\ timeout_port_' = timeout_port_
          /\ UNCHANGED <<now, timeout_, pc, deadline>>
      BY <1>1, <2>3, <2>4
    <3>. QED
      BY <2>5, <3>3, <3>4 DEF Planned
  <2>. QED
    BY <2>7 DEF FirstPlanned
<1>. QED
  BY <1>4, <1>5, <1>6

LEMMA NextPlans ==
  ASSUME DelaysFit, WakeupInv, [Next]_vars
  PROVE  FirstPlanned'
<1>1. PortsInv /\ OrderInv'
  BY NextOrder DEF WakeupInv, OrderInv
<1>2. timer' \in [Timers -> TimerObject] /\ _timers' \in Seq(Timers)
  BY <1>1 DEF OrderInv, PortsInv, TimersTypeOK
<1>3. ASSUME NEW ms \in Delays, NEW repeating \in BOOLEAN, CreateTimer(ms, repeating)
      PROVE  FirstPlanned'
  <2>1. NotifyEventHandler
    BY <1>3 DEF CreateTimer
  <2>. QED
    BY <1>1, <1>2, <2>1, NotifyPlans
<1>4. ASSUME CallbacksDone PROVE FirstPlanned'
  <2>1. NotifyEventHandler
    BY <1>4 DEF CallbacksDone
  <2>. QED
    BY <1>1, <1>2, <2>1, NotifyPlans
<1>5. ASSUME Timeout \/ CallPending \/ CallbackReturns PROVE FirstPlanned'
  <2>1. _handling_callbacks'
    BY <1>1, <1>5 DEF Timeout, CallPending, CallbackReturns, PortsInv, HandlingInv
  <2>. QED
    BY <2>1 DEF FirstPlanned
<1>6. ASSUME CallbackThrows PROVE FirstPlanned'
  BY <1>6 DEF CallbackThrows, FirstPlanned
<1>7. ASSUME Tick PROVE FirstPlanned'
  <2>1. UNCHANGED <<interrupt_fds_, inbox, pollvars, tvars>> /\ now' = now + 1
    BY <1>7 DEF Tick
  <2>2. now \in Nat /\ \A d \in Int : d <= now => d <= now'
    BY <1>1, <2>1 DEF PortsInv, TimersTypeOK
  <2>. QED
    BY <2>1, <2>2 DEF WakeupInv, FirstPlanned, Planned, tvars, pollvars
<1>8. ASSUME UNCHANGED vars PROVE FirstPlanned'
  BY <1>8 DEF WakeupInv, FirstPlanned, Planned, vars, ehvars, tvars, pollvars
<1>. QED
  BY <1>3, <1>4, <1>5, <1>6, <1>7, <1>8, PollPlans, CancelPlans DEF Next, User, HandleTimeouts

\* The wakeup of the first timer is never lost, if the delays fit into the int
\* that epoll_wait takes: however the commands of the isolate, the timeouts that
\* are posted and the calls of epoll_wait interleave, a timeout is on its way,
\* the last command in the pipe sets it, or the event handler knows it and does
\* not sleep past it.
THEOREM WakeupAlwaysPlanned == DelaysFit => (Spec => []WakeupPlanned)
<1>. SUFFICES ASSUME DelaysFit PROVE Spec => []WakeupPlanned
  OBVIOUS
<1>1. ASSUME Init PROVE WakeupInv
  <2>1. FirstPlanned
    BY <1>1 DEF Init, FirstPlanned
  <2>. QED
    BY <1>1, <2>1, InitOrder, InitTimes DEF WakeupInv
<1>2. ASSUME WakeupInv, [Next]_vars PROVE WakeupInv'
  <2>1. Delays \subseteq Nat /\ OrderInv /\ TimesInv
    BY <1>2 DEF WakeupInv, DelaysFit
  <2>. QED
    BY <1>2, <2>1, NextOrder, NextTimes, NextPlans DEF WakeupInv
<1>3. WakeupInv => WakeupPlanned
  BY TimersAssumption DEF WakeupInv, FirstPlanned, Planned, WakeupPlanned
<1>. QED
  BY <1>1, <1>2, <1>3, PTL DEF Spec
=============================================================================
