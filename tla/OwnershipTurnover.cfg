SPECIFICATION FairSpec
CONSTANTS
    Managers = {m1, m2}
    Runs = {1}
    Writers = {p1}
    None = None
    UnreadMax = 1
    GlobalMax = 2
    AckedRetained = 1
    MaxEvents = 1
    MaxFaults = 0
    Incidents = {i1}
    Launcher = m1
    MaxTransfers = 3
    MaxLosses = 2
    MaxCrashes = 1
INVARIANTS
    ClaimAuthorizesOnce
PROPERTIES
    OwnersOnlyGrow
    OperationsEnd
CHECK_DEADLOCK FALSE
