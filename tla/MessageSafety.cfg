SPECIFICATION MHSpec
CONSTANTS
  Handlers <- AllHandlers
  MainIsolates = {m}
  FunctionIsolates = {}
  ClassIsolates = {c}
  NativePorts = {n}
  Ports = {p1, p2, p3}
  NoHandler = NoHandler
  NoPort = NoPort
  NoMessage = NoMessage
  MaxPosts = 2
  MaxRunLoops = 2
  PortInClassIsolate = FALSE
SYMMETRY Symmetry
INVARIANT NoLostWakeup
INVARIANT OneThread
INVARIANT QueuedForOpenPort
INVARIANT DeleteIsClean
INVARIANT RunsWhileLive
INVARIANT OOBInterrupts
CHECK_DEADLOCK FALSE
