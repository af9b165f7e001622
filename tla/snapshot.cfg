SPECIFICATION Spec
CONSTANTS
    None = None
    Rows <- RowsDef
    Lower <- LowerDef
    WideRun = 50
    MaxListed = 3
    MaxCompared = 2
CHECK_DEADLOCK FALSE
INVARIANTS
    NewestSurvives
    NoInstallationHidden
    ResendKeepsIdentity
    OrderIrrelevant
    DiffRebuilds
