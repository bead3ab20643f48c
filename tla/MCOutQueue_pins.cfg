CONSTANTS
  Dig <- PlainInv
  Pwm <- NoOutput
  Inverted <- InvPlain
  Driven <- PlainInv
  Factory <- NoOutput
  Duty = 3
  Dim = 2
  Levels <- TwoLevels
  MaxNet = 2
SPECIFICATION Spec
INVARIANTS PinsFollow
