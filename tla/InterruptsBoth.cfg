SPECIFICATION InterruptsSpec
CONSTANTS
  AllOnes = 31
  StackLimits = {0, 1, 6, 16, 27}
  NoLimit = NoLimit
  BothPending = TRUE
INVARIANT InterruptsPending
