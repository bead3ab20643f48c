SPECIFICATION FairSpec
CONSTANTS
  c1 = c1
  c2 = c2
  MaxNodes = 4
  QueueLen = 1
  PoolSize = 1
  MaxErrors = 1
  Cmd <- OneCmd
  Dests = {0}
  Masks <- AllMasks
  Preambles <- AllPreambles
  SnccLossy = FALSE
  ShiftStride = 1
INVARIANTS
  SignalsCounted
PROPERTIES
  SignalKept
  EverySignalAsked
