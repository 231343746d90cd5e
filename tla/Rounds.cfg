CONSTANTS
    c1 = c1
    c2 = c2
    c3 = c3
    None = none
    Creds = {c1, c2}
    Requests = {r1, r2}
    Limit <- MCLimit
    Slots = 1
    MaxCreds = 0
    MaxWait = 1
    QueueTimeout = 1
    Kinds = {"overloaded", "unauthorized"}
    Rest <- MCRest
    Hints = {}
    Floor = 2
    JitterShare = 1
    Bare = {}
    Uncooled = {}
SPECIFICATION FairSpec
INVARIANTS
    TriesWithinLimits
    QueueBudget
    SlotsReturned
PROPERTIES
    NoneSkipped
    CallReturns
CHECK_DEADLOCK FALSE
