\* Two IO threads and two CPU threads, from the start of run() on; threads may
\* outrun their constructors.
SPECIFICATION FairSpec
CONSTANTS
  IoWorkers = {i1, i2}
  CpuWorkers = {w1, w2}
  Main = mainThread
  Placer = placer
  Loops = {l1, l2}
  Requests = {r1}
  None = None
  TornMax = 1
  EarlyStart = TRUE
CHECK_DEADLOCK FALSE
INVARIANTS
  TypeOK
  LambdasInOnePlace
PROPERTIES
  FaultsOnlyAtStart
  ContextIsServed
  ConnectionsAreServed
