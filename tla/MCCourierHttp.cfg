CONSTANTS
  c1 = c1
  c2 = c2
  Call = {c1, c2}
  maxRetries = 1
  MaxRevocations = 2
  MaxAuthFaults = 1
CHECK_DEADLOCK FALSE
SPECIFICATION FairSpec
INVARIANTS
  TypeOK
  OneRefresh
  TokenAttached
  BoundedSends
  OncePerRetry
  OneRevocationIsAbsorbed
PROPERTY EveryCallEnds
