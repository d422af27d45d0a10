CONSTANTS
  b1 = b1
  b2 = b2
  e1 = e1
  e2 = e2
  None = None
  Batch = {b1}
  ExtId = {e1, e2}
  Caller <- Attempts
  Payload <- Pair
  MaxInvalid = 0
  concurrency = 2
  MaxFaults = 0
  MaxCrashes = 0
CHECK_DEADLOCK FALSE
SPECIFICATION Spec
INVARIANT CountsEveryJob
