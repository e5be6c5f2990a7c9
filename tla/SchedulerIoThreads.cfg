\* Two IO threads: does each of them run one of the two loops?
SPECIFICATION FairSpec
CONSTANTS
  IoWorkers = {i1, i2}
  CpuWorkers = {w1}
  Main = mainThread
  Placer = placer
  Loops = {l1, l2}
  Requests = {r1}
  None = None
  TornMax = 1
  EarlyStart = FALSE
CHECK_DEADLOCK FALSE
PROPERTIES
  AllIoThreadsServe
