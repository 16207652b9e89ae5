SPECIFICATION Spec
CONSTANTS
    Bindings = {b1}
    Tasks = {t1, t2}
    Requests = {r1, r2, r3}
    None = None
    MaxCrashes = 1
    MaxFaults = 1
SYMMETRY Symmetric
INVARIANTS
    TypeOK
    AtMostOnce
    VerdictsAreAccounted
    EffectingIsThisProcess
PROPERTY ImplementsContract
CHECK_DEADLOCK FALSE
