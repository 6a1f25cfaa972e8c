SPECIFICATION Spec
CONSTANTS
  Timers = {t1, t2, t3, t4}
  NULL = NULL
  Delays = {1, 3}
  ClockSteps <- ForwardClock
  MaxTime = 5
INVARIANTS ListIntact Ascending
PROPERTY ImplementsActiveTimers
