CONSTANTS
  Conns = {c1, c2}
  NoConn = NoConn
  Fds = {fd1, fd2}
  NoFd = NoFd
  Listener = listener
  TimerFd = timerfd
  ThreadNums = {0, 1}
  AutoClose = TRUE
SPECIFICATION Spec
INVARIANTS
  ChannelsAlive
PROPERTIES
  AcceptQueueDrains
  ClosedByPeerIsReleased
  IdleIsShutDown
CHECK_DEADLOCK FALSE
