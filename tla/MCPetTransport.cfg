SPECIFICATION LiveSpec
CONSTANTS
    Workspaces = {u, v}
    None = None
    MaxId = 5
    MaxCalls = 3
    MaxStray = 1
    MaxBuilds = 1
INVARIANTS
    AnswerIsForTheCall
    KeptProcessOwesNothing
    NoOrphan
    WorkspaceIsLoaded
    RefreshIsFresh
PROPERTY LimitedCallsEnd
CHECK_DEADLOCK FALSE
