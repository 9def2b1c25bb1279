SPECIFICATION LiveSpec
CONSTANTS
    Req = {q, c}
    Query = {q}
    Relative = {c}
    Nobody = Nobody
    Other = Other
    MaxOther = 1
INVARIANTS
    CancelledHasNoEffect
    RecordIsTruthful
PROPERTIES
    CancelledCallsEnd
    WatchdogEndsQueries
CHECK_DEADLOCK FALSE
