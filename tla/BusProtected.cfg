SPECIFICATION BusSpec
CONSTANTS
  EXTI3 = EXTI3
  SNMP = SNMP
  CheckLink = CheckLink
  Users = {EXTI3, SNMP, CheckLink}
  Rank <- MCRank
  NRegs = 2
  Values = {v1, v2}
  None = None
  Junk = Junk
  v1 = v1
  v2 = v2
  Protected = TRUE
PROPERTIES WholeFrames
