CONSTANTS
    Creds = {c1}
    Requests = {r1, r2}
    Admins = {a1, a2}
    Settings <- One
    MaxLimiters = 3
    MaxReloads = 0
    MaxRounds = 0
SYMMETRY Symmetry
SPECIFICATION Spec
INVARIANTS
    LimitKept
CHECK_DEADLOCK FALSE
