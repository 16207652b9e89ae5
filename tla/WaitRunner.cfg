SPECIFICATION Spec
CONSTANTS
    Waits = {w1}
    Sups = {}
    Managed = {}
    Callers = {c1}
    MaxSessions = 1
    Targets = {t1, t2}
    GatedTargets = {t2}
    MaxOccupants = 1
    MaxChanges = 1
INVARIANTS
    TypeOK
    MetIsWitnessed
    CancelledIsQuiet
    EndingIsToldOnce
