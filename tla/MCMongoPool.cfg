SPECIFICATION FairSpec
CONSTANTS
  Thread = {t1, t2}
  Client = {c1}
  NoClient = NoClient
  WaitQueueTimeout = TRUE
  MaxPools = 2
  MaxCalls = 2
  MaxRows = 1
INVARIANTS
  OneOwner
  NoCursorLeft
  ReinitIsSafe
PROPERTIES
  OnlyFindLoses
  CallReturns
CHECK_DEADLOCK FALSE
