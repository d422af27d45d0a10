CONSTANTS
  i1 = i1
  p1 = p1
  c1 = c1
  None = None
  Ip = {i1}
  windowMs <- Windows
  max <- Limits
  MaxHits = 11
  Proc = {p1}
  Conn = {c1}
  ipOf <- OneIp
  Job = {}
  Asked = {"register"}
  MaxSignals = 0
  MaxStarts = 1
  MaxFaults = 0
  MaxOutages = 0
CHECK_DEADLOCK FALSE
SPECIFICATION WatchSpec
INVARIANT RegistersPerHour
