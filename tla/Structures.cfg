SPECIFICATION MCSpec
CONSTANTS
  Handlers = {h1, h2}
  NULL = NULL
  deleted_entry_ = deleted_entry_
  kInitialCapacity = 4
  FirstPort = 7
  MaxPorts = 5
  Messages = {m1, m2, m3, m4}
  Destinations = {d1, d2}
  Keys = {k1, k2, k3, k4}
  Values = {v1, v2}
  Hashes = {0, 1, 3, 7}
  _DELETED_KEY = _DELETED_KEY
  initial_capacity = 4
  _INITIAL_CAPACITY = 4
INVARIANT SearchEnds
INVARIANT MapFindsLastStored DartMapSearchesEnd DartMapFindsLastStored
PROPERTY ImplementsRegistry ImplementsMailbox
SYMMETRY Symmetry
CHECK_DEADLOCK FALSE
