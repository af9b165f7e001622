SPECIFICATION FairSpec
CONSTANTS
  None = None
  Callers = {heartbeat, delivery}
  MaxTroubles = 1
  SyncFaults = TRUE
PROPERTIES
  Recovers
