CONSTANTS
    Ops = {p1, p2}
    Notes = {n1, n2}
    None = none
    MaxCalls = 3
    MaxTokens = 2
SYMMETRY Symmetry
SPECIFICATION Spec
INVARIANTS
    SchedulerCurrent
    StoreCurrent
    NoResurrection
    ResetHolds
    LocksGivenBack
PROPERTIES
    SchedulerForward
CHECK_DEADLOCK FALSE
