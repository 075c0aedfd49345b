SPECIFICATION Spec
CONSTANTS
  NumClients = 2
  RingCapacity = 1
  RegionSize = 3
  Paths = {p1, p2}
  Values = {v}
  Blank = Blank
  RealFds = {1, 2, 3}
  MaxCalls <- ThreeAndOneOrTwo
  Offsets = {0}
  IoLen = 2
  MaxFd = 4
  MaxCrashes = 0
  MaxDeaths = 0
INVARIANTS TypeOK Conserved Isolation StopsClean
PROPERTY ImplementsIO
SYMMETRY PathSymmetry
CHECK_DEADLOCK FALSE
