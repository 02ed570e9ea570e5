\* TcpServer's default message callback, which never empties the input buffer,
\* with one descriptor for two connections and an event vector of one entry:
\* the level-triggered listener stays ready for ever and accept keeps failing.
CONSTANTS
  c1 = c1
  c2 = c2
  Client <- MCClient
  Listener = Listener
  MaxBytes <- MCMaxBytes
  SndBuf = 1
  Urgers = {c2}
  Resetters = {c1}
  InitialSize = 3
  MessageCallback = "default"
  InitialEvents = 1
  MaxConns = 1
SPECIFICATION FairSpec
PROPERTIES DroppedForCause BytesAreRead
CHECK_DEADLOCK FALSE
