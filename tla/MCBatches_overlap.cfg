CONSTANTS
  b1 = b1
  b2 = b2
  e1 = e1
  e2 = e2
  None = None
  Batch = {b1}
  ExtId = {e1, e2}
  Caller <- Attempts
  Payload <- Shared
  MaxInvalid = 0
  concurrency = 2
  MaxFaults = 0
  MaxCrashes = 2
CHECK_DEADLOCK FALSE
SPECIFICATION FairSpec
INVARIANTS
  TypeOK
  SuccessIsBooked
  SuccessCountNeverInflated
  CompletedMeansDone
  OneBookingPerExtId
PROPERTY EveryJobEnds
