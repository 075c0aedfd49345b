SPECIFICATION LiveSpec
CONSTANTS
  Capacity = 2
  MaxBatch = 3
  MaxOps = 4
  MaxFaults = 1
INVARIANTS TypeOK OwnUntilFault NothingLeftBehind SyncedIsDurable
PROPERTIES ImplementsContract CallReturns
CHECK_DEADLOCK FALSE
