CONSTANTS
  Threads = {t1, t2}
  Funcs = {f1, f2}
  NoFunc = NoFunc
  Channels = {io}
  Wakeup = wakeup
  MaxPending = 3
SPECIFICATION Spec
INVARIANTS
  TypeOK
  NoLostWakeup
  WakeupReadSucceeds
PROPERTIES
  ImplementsExecutor
  IoIsServed
