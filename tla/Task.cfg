SPECIFICATION TaskSpec
CONSTANTS
  high = high
  mid = mid
  low = low
  idle = idle
  sem = sem
  Task <- MCTasks
  IdleTask = idle
  Prio = {1, 2, 3}
  IdlePrio = 9
  InitPrio <- MCInitPrio
  Event = {sem}
  NoEvent = noevent
  MaxTicks = 1
  MaxLock = 1
  OSTmrSemSignal = sem
  TmrTicks = 1
  MaxCnt = 1
  SetEvent = {}
  Careful = TRUE
INVARIANTS
  OnePrioEach
  LiveReadyOK
  WaitListOK
  HighestRuns
