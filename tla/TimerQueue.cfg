CONSTANTS
  Timers = {t1, t2}
  Delays = {1, 2, 4}
  TicksPerSecond = 2
  MaxTime = 5
  Off = Off
SPECIFICATION Spec
INVARIANTS
  TypeOK
  EarliestIsCovered
  NoUseAfterDelete
PROPERTIES
  NeverEarly
  TimersRun
CHECK_DEADLOCK FALSE
