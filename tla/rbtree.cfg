CONSTANTS
  Nodes = {1, 2, 3, 4, 5, 6, 7, 8, 9, 10}
  Nil = Nil
  Expiries = {1, 2, 3}
VIEW LargeView
ACTION_CONSTRAINT AddedOnce
SPECIFICATION Spec
CHECK_DEADLOCK FALSE
INVARIANTS
  WellFormed
PROPERTIES
  QueueSafe
