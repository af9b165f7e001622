SPECIFICATION Spec
CONSTANTS
  Releases <- AllReleases
  First <- Old
  Working <- WorkingReleases
  None = None
  Emergency = {}
  HistoryLimit = 1
  MaxConsumed = 2
  HealthTimeout = 1
  MaxNonce = 2
  MaxSeeds = 0
  MaxMishaps = 1
INVARIANTS
  ActiveIsInstalled
