CONSTANTS
  i1 = i1
  p1 = p1
  c1 = c1
  c2 = c2
  j1 = j1
  None = None
  Ip = {i1}
  windowMs <- Windows
  max <- Limits
  MaxHits = 3
  Proc = {p1}
  Conn = {c1, c2}
  ipOf <- OneIp
  Job = {j1}
  Asked = {"orders"}
  MaxSignals = 2
  MaxStarts = 2
  MaxFaults = 1
  MaxOutages = 1
CHECK_DEADLOCK FALSE
SPECIFICATION FairSpec
INVARIANTS
  TypeOK
  CeilingPerKey
  ResourcesOutliveUse
PROPERTIES
  ShutdownEnds
  EveryRequestEnds
