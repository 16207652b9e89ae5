SPECIFICATION Spec
CONSTANTS
    Daemons = {d1, d2}
    None = None
    Stale = Stale
    Allowances <- MCAllowances
    Calls = {c1}
    Sessions = {s1, s2}
    Speaking = {d1}
INVARIANTS
    TypeOK
    ServedAlone
    OutcomeIsTrue
PROPERTIES
    CallsEnd
    ServiceReturns
CHECK_DEADLOCK FALSE
