\* The calls do not overlap, and a thread may outrun its constructor: does run()
\* create a thread for each worker?
SPECIFICATION Spec
CONSTANTS
  Workers = {w1, w2}
  Pushers = {p1}
  Owner = owner
  Tasks = {t1}
  Endless = {}
  None = None
  TornMax = 1
  Serial = TRUE
  EarlyStart = TRUE
CHECK_DEADLOCK FALSE
INVARIANTS
  RunCreatesThreads
