SPECIFICATION LiveSpec
CONSTANTS
  NumClients = 2
  RingCapacity = 1
  RegionSize = 3
  Paths = {p1, p2}
  Values = {v}
  Blank = Blank
  RealFds = {1, 2, 3}
  MaxCalls <- TwoAndOne
  Offsets = {0}
  IoLen = 2
  MaxFd = 4
  MaxCrashes = 1
  MaxDeaths = 1
INVARIANTS AtMostOnce AnswersMatch NeverBlocked FdTableExact
PROPERTIES CallsReturn ShutdownCompletes ServedAfterRestart
CHECK_DEADLOCK FALSE
