CONSTANTS
  MsgLen = 2
  SndBuf = 3
  MaxRequests = 3
  ClientCloses = FALSE
SPECIFICATION Spec
INVARIANT
  FinMeansAllSent
CHECK_DEADLOCK FALSE
