CONSTANTS
    Contents = {v1, v2, x}
    Alien = {x}
    Torn = {torn}
    Invalid = invalid
    None = none
    Scanners = {s1}
    Managers = {m1}
    QueueSize = 1
    MaxChanges = 2
    MaxScans = 1
SYMMETRY Symmetry
SPECIFICATION Spec
INVARIANTS
    NoUpdateLost
    Converged
PROPERTIES
    AppliedForward
CHECK_DEADLOCK FALSE
