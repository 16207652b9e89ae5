SPECIFICATION Spec
CONSTANTS
    Statuses = {"idle", "working", "done", "blocked"}
    MaxTurns = 3
    MaxPanes = 2
    MaxReads = 1
    MaxDrops = 1
    MaxGlitches = 1
    Contents = {"a", "b"}
    BlockedContents = {"b"}
    MaxRepairs = 2
    MaxFaults = 1
    MaxWrites = 2
    Waits = {}
    Sups = {"sup"}
    Managed = {"sup"}
    Callers = {"c1"}
    MaxSessions = 0
    Job = "sup"
    Threshold = 2
    MaxBoots = 2
    Window = 2
    Screen = 2
    Budget = 2
    Slack = 2
    MaxTicks = 3
    MaxRecords = 3
    Casts <- MCCasts
INVARIANTS
    TypeOK
    CyclesAreTold
    VerdictsReachTheManager
    AcceptedInItsCycle
    RepairPerVersion
    LiveChildHasRunningJob
    CadenceNeverStarves
    EvidenceIsReviewedOnce
    TailScanIsSound
CHECK_DEADLOCK FALSE
