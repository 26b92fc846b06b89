SPECIFICATION FairSpec
CONSTANTS
  high = high
  low = low
  idle = idle
  sem = sem
  tmr = tmr
  Task <- MCTask
  IdleTask = idle
  Prio = {1, 2}
  IdlePrio = 9
  InitPrio <- MCInitPrio
  Event = {sem, tmr}
  NoEvent = noevent
  MaxTicks = 2
  MaxLock = 1
  OSTmrSemSignal = tmr
  TmrTicks = 2
  MaxCnt = 1
  SetEvent = {sem}
INVARIANTS
  SemTypeOK
  ReadyListOK
  WaitListOK
  HighestRuns
  NoTokenWhileWaiting
PROPERTIES
  LockKeepsTask
  SemImplements
  TimedPendReturns
  UrgentRuns
