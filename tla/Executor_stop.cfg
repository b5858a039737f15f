SPECIFICATION LiveSpec
CONSTANTS
  Tasks = {t1, t2, t3}
  Delayed = {t3}
  Workers = {w1, w2}
  QueueLength = 2
  NoTask = NoTask
  NoWorker = NoWorker
INVARIANTS TypeOK ZeroMeansBegun StopCompletes
PROPERTIES ImplementsTaskQueue TaskCompletes StopReturns
CHECK_DEADLOCK FALSE
