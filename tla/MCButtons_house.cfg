CONSTANTS
  Walls <- MCWalls
  Used <- MCUsed
  NColours = 2
  Steps = 2
  NLevels = 2
  MaxNet = 1
SPECIFICATION FairSpec
INVARIANTS TypeOK LampsFollow GradientHeld PressesCount
PROPERTIES GradientStops
CHECK_DEADLOCK FALSE
