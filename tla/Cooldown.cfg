CONSTANTS
    Models = {m1, m2}
    Requests = {r1, r2}
    Kinds = {"unauthorized", "quota", "credential", "transient"}
    Hints = {3}
    LongestHint = 3
    None = none
    Base = 1
    Ceiling = 2
    Floor = 2
    Transient = 2
    Minute = 2
    Unauthorized = 2
    Long = 3
    Horizon = 3
    MaxEvents = 3
SYMMETRY Symmetry
SPECIFICATION Spec
INVARIANTS
    TypeOK
    BlockHonoured
    NotOverBlocked
PROPERTIES
 LadderOnce
CHECK_DEADLOCK FALSE
