CONSTANTS
  MaxReloads = 1
  MaxFaults = 0
SPECIFICATION Spec
INVARIANTS RunsOnItsHardware
CHECK_DEADLOCK FALSE
