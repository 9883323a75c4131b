CONSTANTS
  t1 = t1
  t2 = t2
  t3 = t3
  Timers = {t1, t2, t3}
  NoTimer = NoTimer
  Forever = Forever
  MaxTime = 2
  Timeouts = {0, 1, 2}
  Expiries = {}
  FirstDelay = 1
  IdleDelay = 2
SPECIFICATION FairSpec
INVARIANTS
  QueueConsistent
  NoOversleep
PROPERTIES
  FiresInOrder
  EveryTimerServed
