CONSTANTS
    Models = {m1, m2}
    Requests = {r1}
    Kinds = {"unauthorized"}
    Hints = {}
    LongestHint = 1
    None = none
    Base = 1
    Ceiling = 2
    Floor = 2
    Transient = 2
    Minute = 2
    Unauthorized = 2
    Long = 3
    Horizon = 3
    MaxEvents = 4
SYMMETRY Symmetry
SPECIFICATION Spec
INVARIANTS
    RecoveryReachesStore
CHECK_DEADLOCK FALSE
