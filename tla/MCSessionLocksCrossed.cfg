SPECIFICATION LiveSpec
CONSTANTS
    Session = {s1, s2}
    Project = {p, q}
    Nobody = Nobody
    Handler = Handler
    Invalidators = {s1, s2}
    Closers = {}
    MaxCalls = 2
INVARIANTS
    NoCircularWait
CHECK_DEADLOCK FALSE
