SPECIFICATION FairSpec
CONSTANTS
  r1 = r1
  r2 = r2
  empty = empty
  short = short
  Requests = {r1, r2, empty, short}
  RawSize <- MCRawSize
  SendFails = TRUE
  MaxTime = 2
  None = None
INVARIANTS
  NTPTypeOK
  ReplyMatchesRequest
  HandlerStamps
  OnlyErrorsMask
  OneFate
PROPERTIES LoneRequestAnswered
CHECK_DEADLOCK FALSE
