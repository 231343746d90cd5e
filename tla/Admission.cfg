CONSTANTS
    Creds = {c1, c2}
    Requests = {r1, r2}
    Admins = {}
    Settings <- Queues
    MaxLimiters = 2
    MaxReloads = 0
    MaxRounds = 1
SYMMETRY Symmetry
SPECIFICATION Spec
INVARIANTS
    LimitKept
    NoLostCapacity
CHECK_DEADLOCK FALSE
