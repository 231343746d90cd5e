CONSTANTS
    MaxDispatch = 1
    Groups = {}
    Unaccounted = unaccounted
    Sinks = {}
    NoSink = nosink
    MaxBarrier = 0
    Drainers = {d1}
    Closers = {c1, c2}
    Waiters = {w1}
SPECIFICATION FairSpec
INVARIANTS
    CloseReturnsClosed
PROPERTIES
    DrainReturns
    CloseReturns
