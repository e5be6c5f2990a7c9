\* One IO thread, as in the example: does the timeout end every wait?
SPECIFICATION FairSpec
CONSTANTS
  Sessions = {s1}
  IoThreads = {io1}
  CpuThreads = {cpu1}
  Scripts <- ShortScripts
  SizeMod = 64
  Outcomes = {"200"}
  Prepared = {"return"}
  Sizes = {1}
  Room = 1
CHECK_DEADLOCK FALSE
PROPERTIES
  IoTimeout
