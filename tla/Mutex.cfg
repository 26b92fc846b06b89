SPECIFICATION Spec
CONSTANTS
  high = high
  mid = mid
  low = low
  idle = idle
  m1 = m1
  m2 = m2
  Task <- MCTask
  IdleTask = idle
  Prio = {0, 1, 2, 3, 4}
  IdlePrio = 9
  InitPrio <- MCInitPrio
  Event = {m1, m2}
  NoEvent = noevent
  MaxTicks = 1
  MaxLock = 1
  Mutex = {m1, m2}
  Ceiling = {0, 2, 200}
  NoCeiling = 200
  NoTask = notask
  Reserved = reserved
  Available = 255
  Careful = TRUE
SYMMETRY Mutexes
INVARIANTS
  MutexTypeOK
  ListsOK
  MutualExclusion
  NoInversion
  PriorityRestored
  PrioTblOK
