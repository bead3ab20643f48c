CONSTANTS
  Cmd <- OneCmd
  CmdExts <- Ext2
  Present <- Ext12
  Event <- OneEvent
SPECIFICATION Spec
INVARIANTS TransferredOnce
CHECK_DEADLOCK FALSE
