\* Serialised callers: the pool implements TaskPool, and nothing waits for ever.
SPECIFICATION FairSpec
CONSTANTS
  Workers = {w1, w2}
  Pushers = {p1}
  Owner = owner
  Tasks = {t1, t2}
  Endless = {}
  None = None
  TornMax = 2
  Serial = TRUE
  EarlyStart = FALSE
CHECK_DEADLOCK FALSE
PROPERTIES
  TaskPoolSpec
  EveryTaskSettles
  StopReturns
