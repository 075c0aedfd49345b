SPECIFICATION LiveSpec
CONSTANTS
  NumInstances = 1
  Tries = 2
  CallsMayFail = TRUE
  MaxClientStarts = 3
  MaxServiceStarts = 2
INVARIANTS TypeOK Paired FreshResponses RingsReady
PROPERTIES ConnectReturns RegistrationEnds
CHECK_DEADLOCK FALSE
