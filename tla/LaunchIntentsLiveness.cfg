SPECIFICATION FairSpec
CONSTANTS
    Bindings = {b1}
    Tasks = {t1, t2}
    Requests = {r1, r2}
    None = None
    MaxCrashes = 1
    MaxFaults = 1
PROPERTY RequestsAreAnswered
CHECK_DEADLOCK FALSE
