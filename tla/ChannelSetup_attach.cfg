SPECIFICATION Spec
CONSTANTS
  NumInstances = 2
  Tries = 2
  CallsMayFail = FALSE
  MaxClientStarts = 1
  MaxServiceStarts = 1
INVARIANT AttachMapped
CHECK_DEADLOCK FALSE
