\* One session, two IO threads and two CPU threads: the races between them.
SPECIFICATION Spec
CONSTANTS
  Sessions = {s1}
  IoThreads = {io1, io2}
  CpuThreads = {cpu1, cpu2}
  Scripts <- WholeProtocol
  SizeMod = 64
  Outcomes = {"200", "500", "throw"}
  Prepared = {"return", "throw"}
  Sizes = {1, 2}
  Room = 1
SYMMETRY ThreadSymmetry
CHECK_DEADLOCK FALSE
INVARIANTS
  TypeOK
  OneChain
  Attended
  WaitingIsWatched
  PatientPeersAreAnswered
  OnlyTimeoutInterrupts
  CrashNeedsTimeout
  FittingAnswersAreWhole
  CalledOnceAtTheEnd
PROPERTIES
  ExchangeSpec
