SPECIFICATION Spec
CONSTANTS
  Fds = {0, 1, 2}
  Stdin = 0
  NULL = NULL
  NoPort = NoPort
  ClosedPort = ClosedPort
  PipeCapacity = 2
  IntBits = 8
  Socks = {s1, s2}
  Users = {s1}
  Kinds = {"listen", "socket", "in", "stdin"}
  MaxInbox = 1
  Streams = TRUE
INVARIANTS EpollInSync  EndReported 
CHECK_DEADLOCK FALSE
