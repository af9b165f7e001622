CONSTANTS
    None = None
    Configs <- Written
    Pids = {1, 2}
    MaxIds = 5
    MaxPanics = 2
    MaxTroubles = 2
SPECIFICATION FairSpec
CHECK_DEADLOCK FALSE
INVARIANTS
    OneIdentity
PROPERTIES
    RegisteredIsKept
    ReportsAreLogged
    AgentRuns
