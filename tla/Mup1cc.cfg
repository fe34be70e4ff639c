SPECIFICATION Spec
CONSTANTS
  Shell <- MCShell
  Dut <- MCDut
  Checksum <- MCChecksum
  Plans <- MCPlans
  Asks <- MCAsks
  Messages <- MCMessages
  MaxUpgrade = 1
INVARIANTS
  FramesAreUnderstood
  SentIsMeant
CHECK_DEADLOCK FALSE
