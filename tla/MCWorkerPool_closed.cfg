\* The idle queue has one slot: the second worker that becomes idle leaves.
CONSTANTS
  Workers = {w1, w2}
  Conns = {c1, c2}
  None = None
  MaxWorkers = 1
  QueueSize = 2
  MaxIdle = 2
  AllowShutdown = FALSE
SPECIFICATION FairSpec
PROPERTY ClosedAfterWorker
