CONSTANTS
  Byte <- MCByte
  Zero = "0"
  HeadSize = 2
  InitialSize = 2
  Chunks <- MCChunks
  Lengths = {0, 1, 2, 4}
  MaxSize = 8
SPECIFICATION BufferSpec
INVARIANT BufferInv
PROPERTIES ImplementsByteQueue
CHECK_DEADLOCK TRUE
