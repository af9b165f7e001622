CONSTANTS
    None = None
    Garbage = Garbage
    Packages <- Pkgs
    SourceOf <- Source
    UserScope <- Users
    Hosts <- Machines
    Scans <- Order
    Moves <- Moving
    MaxAge = 1
    MaxTime = 2
    ScanTicks = 1
    MaxEvents = 2
SPECIFICATION Spec
CHECK_DEADLOCK FALSE
INVARIANTS
    CompleteListsAll
    EvidenceIsCurrent
    LastCompleteKept
PROPERTIES
    NoManufacturedRemoval
