CONSTANTS
  e1 = e1
  e2 = e2
  e3 = e3
  f1 = f1
  f2 = f2
  c1 = c1
  Events <- MCEvents
  Flushers <- MCTwoFlushers
  Closers <- MCClosers
  QueueSize = 2
  BatchSize = 2
  Transactional = FALSE
SPECIFICATION SafeSpec
SYMMETRY Symmetry
INVARIANTS TypeOK FIFO NothingForgotten FlushBarrier CloseDrains ReadYourWrites
CHECK_DEADLOCK FALSE
