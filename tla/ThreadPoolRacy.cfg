\* run() and stop() race with push(), and a thread may outrun the constructor
\* of its worker: what still holds until undefined behaviour is reached.
SPECIFICATION Spec
CONSTANTS
  Workers = {w1, w2}
  Pushers = {p1, p2}
  Owner = owner
  Tasks = {t1, t2}
  Endless = {t1}
  None = None
  TornMax = 2
  Serial = FALSE
  EarlyStart = TRUE
SYMMETRY RacySymmetry
CHECK_DEADLOCK FALSE
INVARIANTS
  TaskInOnePlace
