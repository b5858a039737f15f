SPECIFICATION LiveSpec
CONSTANTS
  Txs = {x1, x2}
  Requests = {q1}
  PendingCap = 1
  ExecutedCap = 1
INVARIANTS StopInOrder
PROPERTIES StopReturns
CHECK_DEADLOCK FALSE
