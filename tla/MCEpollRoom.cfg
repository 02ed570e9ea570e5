CONSTANTS
  c1 = c1
  c2 = c2
  c3 = c3
  Client <- MCClient
  Listener = Listener
  FdLimit = 2
  BufSize = 1
  BuffSize = 2
  SndBuf = 2
  Mortals <- MCMortals
  MaxHellos <- MCMaxHellos
SPECIFICATION FairSpec
INVARIANT NoStaleDescriptor
PROPERTIES DroppedForCause DownForCause NobodyWaits
CHECK_DEADLOCK FALSE
