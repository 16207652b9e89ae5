SPECIFICATION Spec
CONSTANTS
    Managers = {m1, m2}
    Runs = {1, 2}
    Writers = {p1, p2}
    None = None
    UnreadMax = 2
    GlobalMax = 2
    AckedRetained = 1
    MaxEvents = 2
    MaxFaults = 1
    Incidents = {}
    Launcher = m1
    MaxTransfers = 1
    MaxLosses = 2
    MaxCrashes = 1
INVARIANTS
    TypeOK
    EventsSurvive
    EventsAreAccountedFor
PROPERTIES
    WritesRespectCapacity
CHECK_DEADLOCK FALSE
