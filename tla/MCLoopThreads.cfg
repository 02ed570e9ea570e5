CONSTANTS
  num_threads_ = 3
  HasCallback = TRUE
  MaxCalls = 7
SPECIFICATION FairSpec
INVARIANTS ReadyLoopsInTurn
PROPERTIES StartReturns
CHECK_DEADLOCK FALSE
