SPECIFICATION FairSpec
CONSTANTS
  Handlers <- AllHandlers
  MainIsolates = {}
  FunctionIsolates = {f}
  ClassIsolates = {}
  NativePorts = {n}
  Ports = {p1, p2}
  NoHandler = NoHandler
  NoPort = NoPort
  NoMessage = NoMessage
  MaxPosts = 2
  MaxRunLoops = 1
  PortInClassIsolate = FALSE
PROPERTY MessagesServed
PROPERTY OOBServed
PROPERTY EndedIsDeleted
CHECK_DEADLOCK FALSE
