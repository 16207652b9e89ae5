SPECIFICATION Spec
CONSTANTS
    Managers = {m1, m2}
    Runs = {1}
    Writers = {p1}
    None = None
    UnreadMax = 1
    GlobalMax = 2
    AckedRetained = 1
    MaxEvents = 3
    MaxFaults = 0
    Incidents = {}
    Launcher = m1
    MaxTransfers = 0
    MaxLosses = 2
    MaxCrashes = 2
INVARIANTS
    GapsSurvive
CHECK_DEADLOCK FALSE
