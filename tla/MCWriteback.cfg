SPECIFICATION LiveSpec
CONSTANTS
    Orig = orig
    Repl = repl
    Missing = missing
    EditorBytes = {orig, missing, mine, theirs}
    Broken = broken
    NoPet = nopet
    MaxEdits = 3
INVARIANTS
    PetHasFinalBuild
    UndisturbedFailureRollsBack
    CompletedWasBuiltAndAudited
PROPERTIES
    IsCompareAndSwap
    Answers
CHECK_DEADLOCK FALSE
