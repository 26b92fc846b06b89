SPECIFICATION Spec
CONSTANTS
  high = high
  low = low
  idle = idle
  mid = mid
  chan = chan
  b1 = b1
  b2 = b2
  Task <- MCTask
  IdleTask = idle
  Prio = {1, 2, 3}
  IdlePrio = 9
  InitPrio <- MCInitPrio
  Event = {chan}
  NoEvent = noevent
  MaxTicks = 1
  MaxLock = 0
  Msg = {b1, b2, note}
  Null = null
  QSize = 2
  Block = {b1, b2}
  Nil = nil
  Note = note
SYMMETRY Blocks
INVARIANTS
  PoolTypeOK
  BlockInOnePlace
PROPERTIES
  ChanImplements
