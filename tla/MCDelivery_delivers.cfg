CONSTANTS
  c1 = c1
  c2 = c2
  e1 = e1
  e2 = e2
  MaxNodes = 2
  Node = {1}
  Dests = {1}
  Cmd = {c1, c2}
  Event = {e1, e2}
  Or <- Sole
  QueueLen = 2
  MaxErrors = 2
  Disturbances <- OneDisturbed
  MaxCrashes = 1
SPECIFICATION DeliverySpec
INVARIANTS TypeOK
PROPERTIES ChannelSpec
