SPECIFICATION Spec
CONSTANTS
  Requests = {r1, r2}
  Refresher = refresher
  Sources = 1
  ClientTimeout = 2
  VerifyTimeout = 1
  Backoff = 4
  Refresh = 10
  UseStale = TRUE
  MaxStale = 1
  MaxTime = 13

INVARIANTS TypeOK AnswersAllowed BackoffHolds StaysWarm StopIsBounded
PROPERTIES NewestWins CallsReturn
CHECK_DEADLOCK FALSE
