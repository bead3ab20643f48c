CONSTANTS
  Cmd <- OneCmd
  CmdExts <- Ext2
  Present <- Ext12
  Event <- OneEvent
SPECIFICATION Spec
PROPERTIES AckedIsTaken
CHECK_DEADLOCK FALSE
