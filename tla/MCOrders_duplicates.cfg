CONSTANTS
  r1 = r1
  r2 = r2
  r3 = r3
  e1 = e1
  e2 = e2
  ub = ub
  gone = gone
  None = None
  Req = {r1, r2, r3}
  ExtId = {e1}
  Partner = {ub}
  Registered = {ub}
  ScanPath <- Path2
  maxRetries = 1
  MaxFaults = 0
CHECK_DEADLOCK FALSE
SPECIFICATION Spec
INVARIANT NoDuplicateShipments
