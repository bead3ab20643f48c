SPECIFICATION FairSpec
CONSTANTS
  c1 = c1
  c2 = c2
  MaxNodes = 1
  QueueLen = 3
  PoolSize = 3
  MaxErrors = 2
  Cmd <- TwoCmds
  Dests = {0}
  Masks <- NoMask
  Preambles <- NoPreamble
  SnccLossy = FALSE
  ShiftStride = 1
PROPERTIES
  OutboxSpec
