SPECIFICATION Spec
CONSTANTS
    Session = {s1, s2}
    Input = {a}
    PetId = {1, 2, 3, 4, 5, 6}
    Target = {v1, v2}
    Env = {e1, e2}
    MaxId = 2
    MaxAttempts = 2
    Faults = {}
    Null = Null
SYMMETRY Symmetry
INVARIANTS
    HandlesFaithful
    StatesHaveOneOwner
PROPERTIES
    CancelledLeavesGraphs
    GraphsChangeOnlyByOwner
    EverySessionIsABook
    ReplacementStartsClean
