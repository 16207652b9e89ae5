SPECIFICATION Spec
CONSTANTS
    Points <- MCPoints
    MaxTier = 2
    TierChain <- MCTierChain
    Provider <- MCKind
    Runner <- MCKind
    Kind <- MCKind
    Quota <- MCKind
    NoPoint = "none"
    Launches = {1, 2}
    MaxPanes = 4
    MaxAgents = 4
    MaxTurns = 1
    Casts <- MCCasts
    MaxTrouble = 3
    TabMaxPanes = 2
INVARIANTS
    TypeOK
    LaunchedIsWhole
    FailureIsReportedTruly
    RecoveryFollowsTheEnd
CHECK_DEADLOCK FALSE
