SPECIFICATION FairSpec
CONSTANTS
  c1 = c1
  c2 = c2
  MaxNodes = 4
  QueueLen = 1
  PoolSize = 1
  MaxErrors = 1
  Cmd <- OneCmd
  Dests = {0}
  Masks <- AllMasks
  Preambles <- NoPreamble
  SnccLossy = TRUE
  ShiftStride = 1
PROPERTIES
  EverySignalAsked
