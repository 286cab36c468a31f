SPECIFICATION FairShutdown
CONSTANTS
  Conns = {1, 2}
  Shards = 2
  MaxBuffer = 2
  MaxSignals = 2
CHECK_DEADLOCK FALSE
INVARIANTS
  RequestsFinish
  Accounts
PROPERTIES
  ShutdownEnds
