CONSTANTS
  Cmd <- OneCmd
  CmdExts <- Ext2
  Present <- Ext12
  Event <- OneEvent
SPECIFICATION FairSpec
INVARIANTS TypeOK TriggerHeld NotSleptOver BusyNotAcked
PROPERTIES EventKept CommandServed EventTaken
CHECK_DEADLOCK FALSE
