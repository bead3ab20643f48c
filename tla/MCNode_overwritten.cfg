CONSTANTS
  Cmd <- OneCmd
  CmdExts <- Ext2
  Present <- Ext12
  Event <- OneEvent
SPECIFICATION Spec
INVARIANTS OneEventAtATime
CHECK_DEADLOCK FALSE
