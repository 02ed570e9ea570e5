\* The echo server with two clients, of which one may reset its connection and
\* the other may send an urgent byte.
CONSTANTS
  c1 = c1
  c2 = c2
  Client <- MCClient
  Listener = Listener
  MaxBytes <- MCMaxBytes
  SndBuf = 1
  Urgers = {c2}
  Resetters = {c1}
  InitialSize = 1
  MessageCallback = "echo"
  InitialEvents = 1
  MaxConns = 2
SPECIFICATION FairSpec
INVARIANTS NoDanglingChannel StreamIntact NoLostWakeup
PROPERTIES ImplementsEchoService EchoComes GoneIsRemoved
CHECK_DEADLOCK FALSE
