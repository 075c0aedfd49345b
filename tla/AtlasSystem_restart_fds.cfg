SPECIFICATION Spec
CONSTANTS
  NumClients = 2
  RingCapacity = 1
  RegionSize = 3
  Paths = {p1, p2}
  Values = {v}
  Blank = Blank
  RealFds = {1, 2, 3}
  MaxCalls <- ThreeAndOne
  Offsets = {0}
  IoLen = 2
  MaxFd = 4
  MaxCrashes = 1
  MaxDeaths = 0
INVARIANT Isolation
CHECK_DEADLOCK FALSE
