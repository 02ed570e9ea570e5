SPECIFICATION Spec
CONSTANTS
  Thread = {t1, t2, t3}
  Kinds <- MCFlat
  PoolSize = 1
  RequestedMax = 2
  DefaultMax = 3
  MaxCalls = 1
  MaxKeys = 0
  MaxOutages = 0
  MaxReleases = 0
INVARIANTS
  WithinRequestedMax
CHECK_DEADLOCK FALSE
