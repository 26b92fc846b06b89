SPECIFICATION Spec
CONSTANTS
  high = high
  mid = mid
  low = low
  idle = idle
  a = a
  b = b
  Task <- MCTask
  IdleTask = idle
  Prio = {1, 2, 3}
  IdlePrio = 9
  InitPrio <- MCInitPrio
  Event = {}
  NoEvent = noevent
  MaxTicks = 1
  MaxLock = 0
  OS_MAX_FLAGS = 2
  Bit = {a, b}
  Asks <- MCAsks
  Posts <- MCPosts
  Suspends = {low}
  Careful = TRUE
INVARIANTS
  FlagTypeOK
  ListsOK
  NodesOK
  NoMissedFlags
  GrantedFlagsMeet
  DepletedMeansNone
