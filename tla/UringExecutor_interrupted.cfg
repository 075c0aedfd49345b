SPECIFICATION Spec
CONSTANTS
  Capacity = 2
  MaxBatch = 3
  MaxOps = 4
  MaxFaults = 1
INVARIANT ResultsOwn
CHECK_DEADLOCK FALSE
