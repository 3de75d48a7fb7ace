SPECIFICATION Spec
CONSTANTS
  Fds = {1}
  Stdin = 0
  NULL = NULL
  NoPort = NoPort
  ClosedPort = ClosedPort
  PipeCapacity = 2
  IntBits = 8
  Socks = {s1}
  Users = {s1}
  Kinds = {"out"}
  MaxInbox = 1
  Streams = TRUE
INVARIANT NotStalled
CHECK_DEADLOCK FALSE
