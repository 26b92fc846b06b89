SPECIFICATION Spec
CONSTANTS
  OS_TMR_CFG_MAX = 3
  OS_TMR_CFG_WHEEL_SIZE = 2
  TimeMod = 5
  MaxSignals = 1
  Kind <- MCKind
  Careful = TRUE
INVARIANTS
  TmrTypeOK
  WheelOK
PROPERTIES
  TimersImplement
