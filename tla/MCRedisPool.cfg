SPECIFICATION FairSpec
CONSTANTS
  Thread = {t1, t2, t3}
  Kinds <- MCBoth
  PoolSize = 1
  RequestedMax = 2
  DefaultMax = 2
  MaxCalls = 2
  MaxKeys = 1
  MaxOutages = 1
  MaxReleases = 1
INVARIANTS
  OnePlace
  PoolBound
  FailsOnce
PROPERTIES
  CallReturns
CHECK_DEADLOCK FALSE
