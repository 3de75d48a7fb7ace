SPECIFICATION MHSpec
CONSTANTS
  Handlers <- AllHandlers
  MainIsolates = {}
  FunctionIsolates = {}
  ClassIsolates = {c}
  NativePorts = {}
  Ports = {p1, p2}
  NoHandler = NoHandler
  NoPort = NoPort
  NoMessage = NoMessage
  MaxPosts = 1
  MaxRunLoops = 1
  PortInClassIsolate = TRUE
INVARIANT RunsWhileLive
CHECK_DEADLOCK FALSE
