SPECIFICATION DNSFairSpec
CONSTANTS
  MAX_DNS_RETRY = 2
  DNS_WAIT_TIME = 3
  BeforeOSStart = TRUE
  QueryLen = 1
  MaxElapsed = 12

PROPERTIES DNSReturns
CHECK_DEADLOCK FALSE
