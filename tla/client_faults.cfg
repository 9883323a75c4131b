CONSTANTS
  Fds = {3, 4, 5}
  NoFd = NoFd
  Faults = {"socket", "connect", "immediate", "add", "memory", "mod"}
  Addrs = 2
  t1 = t1
  t2 = t2
  Threads = {t1, t2}
  Loggers = {t1}
  g1 = g1
  g2 = g2
  Groups = {g1, g2}
  LogFaults = {"socket", "dir", "bind", "full", "memory"}
SPECIFICATION MCSpec
INVARIANTS
  CallbackFits
  OneSocket
  RetryOnlyWhenDown
  AwakeAtWork
  NoSocketLost
PROPERTIES
  OthersUntouched
  KeepsTryingUnlessFailed
  Responsive
  OthersLeftAlone
  GetsThrough
CHECK_DEADLOCK FALSE
