CONSTANTS
  t1 = t1
  t2 = t2
  Threads = {t1, t2}
  c1 = c1
  c2 = c2
  c3 = c3
  Contexts = {c1, c2, c3}
  b1 = b1
  b2 = b2
  b3 = b3
  Buses = {b1, b2, b3}
  Slots = {1, 2}
  Fds = {1, 2, 3}
  Other = Other
  None = None
  g1 = g1
  g2 = g2
  Gpios = {g1, g2}
  i1 = i1
  i2 = i2
  Irqs = {i1, i2}
  Faults = {"edge", "value", "read", "memory", "epoll"}
  W = 2
  MaxRead = 2
  PinFaults = {"export", "access", "write", "read"}
SPECIFICATION MCSpec
INVARIANTS
  BusesRight
  ListedWatched
  BusProtocol
  Effective
PROPERTIES
  Delivered
CHECK_DEADLOCK FALSE
