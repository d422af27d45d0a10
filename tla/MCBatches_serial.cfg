CONSTANTS
  b1 = b1
  b2 = b2
  e1 = e1
  e2 = e2
  None = None
  Batch = {b1, b2}
  ExtId = {e1, e2}
  Caller <- Attempts
  Payload <- Any
  MaxInvalid = 1
  concurrency = 1
  MaxFaults = 1
  MaxCrashes = 0
CHECK_DEADLOCK FALSE
SPECIFICATION FairSpec
INVARIANTS
  SuccessIsBooked
  CountsEveryJob
  CompletesUnlessRepeated
PROPERTIES
  BatchCompletes
  RefinesTally
