CONSTANTS
  NumThreads = 4
  MaxConns = 15
SPECIFICATION Spec
INVARIANTS
  TypeOK
  LoopsArePublished
  NamesDiffer
  RoundRobin
PROPERTIES
  StartReturns
CHECK_DEADLOCK FALSE
