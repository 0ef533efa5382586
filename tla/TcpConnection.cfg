CONSTANTS
  MsgLen = 2
  SndBuf = 3
  MaxRequests = 3
  ClientCloses = TRUE
SPECIFICATION Spec
INVARIANTS
  TypeOK
  WritingIffPending
  MessagesAreWhole
  FinComesLast
PROPERTIES
  ShutdownCompletes
CHECK_DEADLOCK FALSE
