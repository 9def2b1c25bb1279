SPECIFICATION Spec
CONSTANTS
    lib = lib
    left = left
    right = right
    File = {lib, left, right}
    Deps <- Shared
    Rules <- FromZero
    MaxText = 1
    MaxEdits = 2
    MaxFiles = 2
    Broken = Broken
    Gone = Gone
    Absent = Absent
    Reverts = FALSE
SYMMETRY Symmetry
INVARIANTS
    EpochsFollowBuilds
    ServedLayoutIsFresh
    AnchorsMatch
