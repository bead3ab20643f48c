CONSTANTS
  Dig <- PlainInv
  Pwm <- Channel
  Inverted <- InvPlain
  Driven <- Written
  Factory <- NoOutput
  Duty = 3
  Dim = 2
  Levels <- TwoLevels
  MaxNet = 2
SPECIFICATION FairSpec
INVARIANTS TypeOK CacheFollowed FoldKeepsFirst LevelForgotten
PROPERTIES FlushedInPause
