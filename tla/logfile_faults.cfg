CONSTANTS
  l1 = l1
  l2 = l2
  Logs = {l1, l2}
  NoLog = NoLog
  MaxLogs = 3
  MaxFiles = 6
  CleanStep = 2
  MaxSize = 1
  Faults = {"remove", "rename", "open", "stat"}
SYMMETRY Symmetry
SPECIFICATION Spec
INVARIANTS
  BooksRight
  CleanupWorks
