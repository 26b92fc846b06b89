SPECIFICATION Spec
CONSTANTS
  SyncPeriod = 10
  MaxDelay = 2
  BootTime = 0
  Start = 20
  MaxNow = 44
INVARIANTS
  ClockNearTrue
CHECK_DEADLOCK FALSE
