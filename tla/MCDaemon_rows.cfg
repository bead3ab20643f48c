SPECIFICATION FairSpec
CONSTANTS
  c1 = c1
  c2 = c2
  MaxNodes = 2
  QueueLen = 2
  PoolSize = 3
  MaxErrors = 2
  Cmd <- OneCmd
  Dests = {0, 1}
  Masks <- NoMask
  Preambles <- NoPreamble
  SnccLossy = FALSE
  ShiftStride = 1
INVARIANTS
  TypeOK
  BuffersConserved
  RowsContiguous
  OnlyHeadTried
  Settled
PROPERTIES
  OutboxSpec
  SocketServed
