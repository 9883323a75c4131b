CONSTANTS
  pa = pa
  pb = pb
  pc = pc
  Structs = {pa, pb, pc}
  f1 = f1
  f2 = f2
  f3 = f3
  Fds = {f1, f2, f3}
  Listener = Listener
  NoFd = NoFd
  NoPtr = NoPtr
  Batch = 2
  Backlog = 2
  MaxPeers = 3
  ServerFaults = {"accept", "memory", "add"}
  Senders = {}
  Watchers = {}
  NoAddr = NoAddr
  QueueLen = 1
  Room = 1
  MaxEntries = 0
  Faults = {}
SPECIFICATION ServerSpec
INVARIANTS
  BatchFresh
  ViewsAgree
PROPERTIES
  Released
