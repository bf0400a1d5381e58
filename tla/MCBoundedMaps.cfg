SPECIFICATION Spec
CONSTANTS
  HeadroomDivisor = 8
  MaxTime = 6
  MaxCalls = 4
  Limits <- MCLimits
  Blank = ""
  Global = "global"
  Minute = 2
  EntryTTL = 3
  MaxBuckets = 1
  MaxDelay = 1
  MaxRequests = 3
  IPs = {i1, i2, i3}
  MaxNames = 2
  CacheTTL = 1
  MaxResults = 1
  VerifyTimeout = 1
SYMMETRY Symmetry
INVARIANTS TypeOK RateHolds HonestAnswer EndsInTime
CHECK_DEADLOCK FALSE
