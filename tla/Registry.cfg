CONSTANTS
    MaxDispatch = 2
    Groups = {g1}
    Unaccounted = unaccounted
    Sinks = {s1}
    NoSink = nosink
    MaxBarrier = 1
    Drainers = {d1}
    Closers = {}
    Waiters = {}
SPECIFICATION Spec
INVARIANTS
    ReleasedAfterClose
    DrainedIsEmpty
    DrainCancelsAll
    NoLostWakeup
    ReleaseCount
    NoReleaseLost
    NeverOverAnnounced
    BarrierComplete
PROPERTY
    AtomicSpec
