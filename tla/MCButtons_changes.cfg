CONSTANTS
  Walls <- MCWalls
  Used <- MCUsed
  NColours = 2
  Steps = 2
  NLevels = 2
  MaxNet = 1
SPECIFICATION Spec
PROPERTIES CalledOnChange
CHECK_DEADLOCK FALSE
