SPECIFICATION LiveSpec
CONSTANTS
    Session = {s1, s2}
    Project = {p, q}
    Nobody = Nobody
    Handler = Handler
    Invalidators = {s1}
    Closers = {s1}
    MaxCalls = 3
INVARIANTS
    NoCircularWait
    InvalidationIsComplete
PROPERTIES
    EveryCallReturns
CHECK_DEADLOCK FALSE
