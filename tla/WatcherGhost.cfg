CONSTANTS
    Contents = {v1, v2}
    Alien = {}
    Torn = {}
    Invalid = invalid
    None = none
    Scanners = {s1}
    Managers = {}
    QueueSize = 1
    MaxChanges = 3
    MaxScans = 1
SYMMETRY Symmetry
SPECIFICATION Spec
INVARIANTS
    NoGhost
CHECK_DEADLOCK FALSE
