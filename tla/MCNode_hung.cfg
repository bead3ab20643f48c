CONSTANTS
  Cmd <- OneCmd
  CmdExts <- Ext2
  Present <- Ext12
  Event <- OneEvent
SPECIFICATION Spec
INVARIANTS NeverHung
CHECK_DEADLOCK FALSE
