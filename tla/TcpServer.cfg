CONSTANTS
  Conns = {c1, c2, c3}
  NoConn = NoConn
  Fds = {fd1, fd2, fd3}
  NoFd = NoFd
  Listener = listener
  TimerFd = timerfd
  ThreadNums = {0, 2}
  AutoClose = FALSE
SPECIFICATION Spec
SYMMETRY Symmetry
INVARIANTS
  TypeOK
  ChannelsAlive
  PendingCallsAreValid
PROPERTIES
  ImplementsLifecycle
CHECK_DEADLOCK FALSE
