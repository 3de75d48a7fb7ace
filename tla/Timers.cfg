SPECIFICATION Spec
CONSTANTS
  Fds = {}
  Stdin = 0
  NULL = NULL
  NoPort = NoPort
  ClosedPort = ClosedPort
  PipeCapacity = 1
  IntBits = 8
  Timers = {t1, t2, t3}
  TimerPort = TimerPort
  Delays = {0, 1}
  MaxTime = 2
  MaxInbox = 1
INVARIANTS FifoOrder PortTracksTimers WakeupPlanned
PROPERTY TimersFire
CHECK_DEADLOCK FALSE
