CONSTANTS
  Null = Null
  kFlushInterval = 1
  StartTime = 2
  EndTime = 4
  Cap = 22
  MaxLines = 4
  kSingleFileMaximumSize = 24
  kSmallSize = 18
  kNum2MaxStringLength = 5
  g_level = "INFO"
  Statements <- MCStatements
  Inputs <- MCInputs
SPECIFICATION LoggerSpec
INVARIANTS
  LinesInOrder
  LossesAreSingle
  UnflushedIsRecent
  LinesAreWholeOrFull
PROPERTIES
  StoredLinesAreWritten
  StopReturns
CHECK_DEADLOCK FALSE
