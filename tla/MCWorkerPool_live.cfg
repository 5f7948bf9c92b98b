\* A limit of one worker (MaxWorkers + 1) shared by two connections, so that it
\* is taken again before its last completion is consumed; a second address, so
\* that the limit could be exceeded.  The idle queue has room.  MaxIdle = 0: the
\* gc dismisses idle workers all the time.  SIGTERM may arrive at any moment.
CONSTANTS
  Workers = {w1, w2}
  Conns = {c1, c2}
  None = None
  MaxWorkers = 0
  QueueSize = 3
  MaxIdle = 0
  AllowShutdown = TRUE
SPECIFICATION FairSpec
PROPERTY JobAnswered
PROPERTY ShutdownJoinsWorkers
