SPECIFICATION LiveSpec
CONSTANTS
  Callers = {t1, t2}
  RegionLen = 3
  Modulus = 8
  Sizes = {1, 2}
  Paths = {p}
  MaxCalls = 4
  MaxFaults = 1
PROPERTY Returns
CHECK_DEADLOCK FALSE
