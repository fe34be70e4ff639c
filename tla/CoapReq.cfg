SPECIFICATION FairSpec
CONSTANTS
  Mid <- MCMid
  NoMid <- MCNoMid
  BlockSize = 2
  BodySizes <- MCBodySizes
  RespBlocks <- MCRespBlocks
  Errors = TRUE
  MaxReset = 1
  MaxRetry = 1
  LinkCap = 2
  MaxReq = 2
  MaxAgain = 1
INVARIANTS TypeOK PayloadInOrder SuccessIsWhole BodyIntact
PROPERTY ImplementsCall Terminates
CHECK_DEADLOCK FALSE
