SPECIFICATION LiveSpec
CONSTANTS
    Session = {s1}
    Input = {a}
    PetId = {1, 2, 3, 4}
    Target = {v1, v2}
    Env = {e1}
    MaxId = 3
    MaxAttempts = 2
    Faults = {"edit_race", "disconnect", "goals", "enrich", "rollback"}
    Null = Null
INVARIANTS
    PublishesWhatWasClosed
PROPERTIES
    CallsAreAnswered
