CONSTANTS
  Null = Null
  kFlushInterval = 1
  StartTime = 2
  EndTime = 2
  Cap = 1
  MaxLines = 4
  kSingleFileMaximumSize = 4
SPECIFICATION Spec
INVARIANT
  TwoSpareBuffers
CHECK_DEADLOCK FALSE
