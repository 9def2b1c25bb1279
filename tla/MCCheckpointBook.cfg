SPECIFICATION Spec
CONSTANTS
    Input = {a}
    PetId = {h1, h2, h3, h4}
    Target = {t}
    MaxId = 4
    Null = Null
SYMMETRY HandleSymmetry
INVARIANTS
    TypeOK
    TreeOK
    AncestorsRetained
    HandlesDistinct
    PathMatchesLineage
PROPERTIES
    IdsNeverReused
    HistoryImmutable
