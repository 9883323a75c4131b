CONSTANTS
  s1 = s1
  b = b
  w1 = w1
  Senders = {s1, b}
  Watchers = {b, w1}
  NoAddr = NoAddr
  QueueLen = 1
  Room = 1
  MaxEntries = 3
  Faults = {"open", "write", "memory"}
  Structs = {}
  Fds = {}
  Listener = Listener
  NoFd = NoFd
  NoPtr = NoPtr
  Batch = 1
  Backlog = 0
  MaxPeers = 0
  ServerFaults = {}
SPECIFICATION LogdSpec
INVARIANTS
  WriterHasFile
PROPERTIES
  Served
  DeadForgotten
