CONSTANTS
  c1 = c1
  e1 = e1
  MaxNodes = 2
  Node = {1}
  Dests = {1}
  Cmd = {c1}
  Event = {e1}
  Or <- WiredOr
  QueueLen = 1
  MaxErrors = 2
  Disturbances <- OneDisturbed
  MaxCrashes = 2
SPECIFICATION FairSpec
PROPERTIES EventHeard
