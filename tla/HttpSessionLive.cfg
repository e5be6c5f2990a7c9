\* A second IO thread to run the timers: no session stays open for ever.
SPECIFICATION FairSpec
CONSTANTS
  Sessions = {s1}
  IoThreads = {io1, io2}
  CpuThreads = {cpu1}
  Scripts <- LivePeers
  SizeMod = 64
  Outcomes = {"200"}
  Prepared = {"return"}
  Sizes = {1}
  Room = 1
CHECK_DEADLOCK FALSE
PROPERTIES
  SessionsEnd
