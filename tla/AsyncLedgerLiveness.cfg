CONSTANTS
  e1 = e1
  e2 = e2
  e3 = e3
  f1 = f1
  f2 = f2
  c1 = c1
  Events <- MCTwoEvents
  Flushers <- MCFlushers
  Closers <- MCClosers
  QueueSize = 1
  BatchSize = 2
  Transactional = TRUE
SPECIFICATION Spec

PROPERTIES CallsReturn EventsSettle DropsReported ImplementsLog
CHECK_DEADLOCK FALSE
