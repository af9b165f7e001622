SPECIFICATION FairSpec
CONSTANTS
  Releases <- AllReleases
  First <- Old
  Working <- WorkingReleases
  None = None
  Emergency = {3}
  HistoryLimit = 1
  MaxConsumed = 2
  HealthTimeout = 1
  MaxNonce = 1
  MaxSeeds = 1
  MaxMishaps = 2
INVARIANTS
  RollbackPossible
  NeverReplayed
PROPERTY TransactionEnds
