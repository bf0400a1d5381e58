SPECIFICATION SafeSpec
CONSTANTS
  Requests = {r1, r2}
  Refresher = refresher
  Sources = 1
  ClientTimeout = 2
  VerifyTimeout = 1
  Backoff = 6
  Refresh = 10
  UseStale = TRUE
  MaxStale = 2
  MaxTime = 15

INVARIANT VerifyIsBounded
CHECK_DEADLOCK FALSE
