SPECIFICATION Spec
CONSTANTS
    Edits = {e1, e2}
    MaxInst = 2
    MaxGen = 0
    Copy = Copy
    None = None
SYMMETRY EditSymmetry
INVARIANTS
    TypeOK
    UnsavedIsOnTheWay
PROPERTY SavedSurvivesPersist
CHECK_DEADLOCK FALSE
