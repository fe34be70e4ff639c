SPECIFICATION FairSpec
CONSTANTS
  Dut = Dut
  Mup1 = Mup1
  Coap = Coap
  Ping = Ping
  Handler <- MCHandler
  Path <- MCPath
  AckTime = 4
  MupTime = 2
  PollTime = 1
  WaitTime = 5
  MaxRetry = 2
  MaxInput = 2
INVARIANTS NextIsEarliest PollHasTimeout
PROPERTY WaitEnds
CHECK_DEADLOCK FALSE
