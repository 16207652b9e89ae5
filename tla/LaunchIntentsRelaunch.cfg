SPECIFICATION Spec
CONSTANTS
    Bindings = {b1}
    Tasks = {t1}
    Requests = {r1, r2}
    None = None
    MaxCrashes = 0
    MaxFaults = 0
INVARIANT RelaunchIsOutsideTheIntent
CHECK_DEADLOCK FALSE
