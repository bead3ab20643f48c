SPECIFICATION Spec
CONSTANTS
  c1 = c1
  c2 = c2
  MaxNodes = 2
  QueueLen = 2
  PoolSize = 3
  MaxErrors = 2
  Cmd <- OneCmd
  Dests = {0, 1, 2}
  Masks <- NoMask
  Preambles <- NoPreamble
  SnccLossy = FALSE
  ShiftStride = 1
INVARIANTS
  TableRowsOnly
