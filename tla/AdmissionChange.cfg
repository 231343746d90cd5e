CONSTANTS
    Creds = {c1}
    Requests = {r1, r2}
    Admins = {a1}
    Settings <- Lifted
    MaxLimiters = 2
    MaxReloads = 2
    MaxRounds = 0
SPECIFICATION FairSpec
INVARIANTS
    SlotsCounted
    QueueCounted
PROPERTIES
    WaitEnds
CHECK_DEADLOCK FALSE
