CONSTANTS
  r1 = r1
  r2 = r2
  r3 = r3
  e1 = e1
  e2 = e2
  ub = ub
  gone = gone
  None = None
  Req = {r1, r2, r3}
  ExtId = {e1, e2}
  Partner = {ub, gone}
  Registered = {ub}
  ScanPath <- Path2
  maxRetries = 1
  MaxFaults = 1
SYMMETRY Symmetric
SPECIFICATION Spec
INVARIANTS
  TypeOK
  RepeatedPostOnly
  ShipmentsAccounted
  StatusHasEvidence
  CreatedIsBacked
  FailureIsRecorded
  TrailComplete
PROPERTIES
  OnlyStaleSavesLoseData
  RefinesLedger
CHECK_DEADLOCK FALSE
