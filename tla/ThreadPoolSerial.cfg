\* run(), stop() and push() serialised by the caller: the pool is sound.
SPECIFICATION Spec
CONSTANTS
  Workers = {w1, w2, w3}
  Pushers = {p1, p2}
  Owner = owner
  Tasks = {t1, t2, t3}
  Endless = {}
  None = None
  TornMax = 2
  Serial = TRUE
  EarlyStart = FALSE
SYMMETRY Symmetry
CHECK_DEADLOCK FALSE
INVARIANTS
  TypeOK
  TaskInOnePlace
  NoFault
  NoTaskLeftBehind
  StoppedWorkersArePrivate
