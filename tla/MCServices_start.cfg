CONSTANTS
  MaxReloads = 2
  MaxFaults = 1
SPECIFICATION FairSpec
INVARIANTS TypeOK OneGeneration AddedOnce SearchesFind
PROPERTIES AllRun
CHECK_DEADLOCK FALSE
