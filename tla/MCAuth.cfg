CONSTANTS
  r1 = r1
  r2 = r2
  r3 = r3
  r4 = r4
  e1 = e1
  e2 = e2
  None = None
  Req = {r1, r2, r3, r4}
  Email = {e1, e2}
  MaxFaults = 1
SYMMETRY Symmetric
SPECIFICATION Spec
INVARIANTS
  TypeOK
  OneUserPerEmail
  SessionsAreBacked
  LateIsRefused
PROPERTY
  RefinesSessions
CHECK_DEADLOCK FALSE
