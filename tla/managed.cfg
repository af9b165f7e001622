SPECIFICATION FairSpec
CONSTANTS
  None = None
  Settings <- SomeSettings
  Offers = {o1}
  Local <- LocalConfig
  Levels = {"info", "debug"}
  MinInterval = 1
  MaxInterval = 4
  MaxEffective = 4
  MaxStartup = 2
  JitterDivisor = 2
  BatteryFactor = 4
  AgentHash = 5
  MaxRegister = 2
  Unstamped = FALSE
  MaxPolicies = 2
  MaxOffers = 1
  MaxDowngrades = 1
  MaxLag = 1
INVARIANTS
  AcknowledgedInForce
  NextScanBounded
  OneTryPerOffer
  PartialOnlyAsV2
PROPERTIES
  PolicyConverges
