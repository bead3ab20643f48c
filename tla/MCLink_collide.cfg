CONSTANTS
  c1 = c1
  e1 = e1
  MaxNodes = 4
  Node = {1, 2}
  Dests = {3}
  Cmd = {c1}
  Event = {e1}
  Or <- WiredOr
  QueueLen = 1
  MaxErrors = 1
  Disturbances <- EchoDisturbed
  MaxCrashes = 0
SPECIFICATION FairSpec
PROPERTIES EventHeard
