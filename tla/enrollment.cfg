SPECIFICATION FairSpec
CONSTANTS
  None = None
  Callers = {heartbeat, delivery}
  MaxTroubles = 2
  SyncFaults = FALSE
INVARIANTS
  OneCertPerKey
  NewestKeyKept
  SendBudget
PROPERTIES
  Recovers
