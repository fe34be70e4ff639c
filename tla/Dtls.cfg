SPECIFICATION FairSpec
CONSTANTS
  MaxPoll = 2
  MaxRetry = 2
  MaxReq = 2
  MaxTrouble = 1
  MaxSession = 2
INVARIANTS DataOnlyAgreed SecureIsAgreed UndisturbedFits
PROPERTY HandshakeEnds
CHECK_DEADLOCK FALSE
