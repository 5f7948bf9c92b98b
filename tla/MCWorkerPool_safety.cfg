\* Two workers may exist (MaxWorkers + 1) and there is an address for a third, so
\* that the limit could be exceeded.  The idle queue holds one worker: it is full,
\* empty and over the idle limit in turn.
CONSTANTS
  Workers = {w1, w2, w3}
  Conns = {c1, c2}
  None = None
  MaxWorkers = 1
  QueueSize = 2
  MaxIdle = 0
  AllowShutdown = TRUE
SPECIFICATION Spec
SYMMETRY Symmetry
INVARIANT TypeOK
INVARIANT JobOwnsConnection
INVARIANT QueueHoldsIdleWorkers
INVARIANT NoDanglingSubscription
INVARIANT JobsAndWorkersKept
PROPERTY LostOnlyIfCrowded
