SPECIFICATION Spec
CONSTANTS
    Messages = {m1, m2, m3, m4}
    LaunchPrompts = {m3}
    Hints = {m4}
    Hosts = {h1, h2}
    MaxOccupants = 2
    MaxSeq = 3
    MaxSpent = 2
    MaxFaults = 1
    Grace = 1
    MaxFocusDefers = 1
    MaxAttempts = 2
    RetireEnabled = TRUE
    Casts = {{m1, m2, h1, "retirer"}, {m1, m2, "retirer", "raw"}, {m1, h1, "retirer", "faults"},
             {m1, m2, h1, h2, "faults"}, {m1, m3, h1, "faults"},
             {m1, m3, h1, "newcomers"}, {m1, h1, "controller", "newcomers"},
             {m4, "retirer", "newcomers"}, {m4, "retirer", "faults"}}
INVARIANTS
    TypeOK
    OneEnterPerFrame
    RetiredLosesNoPrompt
    LaneEndsOnce
PROPERTY SweepActsInTime
CHECK_DEADLOCK FALSE
