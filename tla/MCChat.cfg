CONSTANTS
  c1 = c1
  c2 = c2
  Client <- MCClient
  Script <- MCScript
  Base = 2
  HeaderSize = 2
  MaxLen = 1
SPECIFICATION FairSpec
PROPERTIES
  ImplementsChatService
  EveryoneHears
  GoneIsErased
CHECK_DEADLOCK FALSE
