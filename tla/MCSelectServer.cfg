SPECIFICATION FairSpec
CONSTANTS
  c1 = c1
  c2 = c2
  c3 = c3
  Client <- MCClient
  None = None
  Slots = 1
  BufferSize = 1
  FdLimit = 2
  FdSetSize = 1
  SndBuf = 1
  Leavers <- MCLeavers
  MaxBytes <- MCMaxBytes
  MaxLines = 1
INVARIANTS
  OwnBytesInOrder
PROPERTIES
  Accepted
  EntryIsFreed
  SigintEnds
CHECK_DEADLOCK FALSE
