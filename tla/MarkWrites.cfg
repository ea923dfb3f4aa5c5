SPECIFICATION Spec
CONSTANTS
    Comments = {c1}
    Suggestions = {s1}
    Calls = {o1, o2}
    MaxDecided = 2
    None = None
SYMMETRY Alike
INVARIANTS
    TypeOK
    DecidedOnce
    CommentSurvives
    FinalizedStaysOut
CHECK_DEADLOCK FALSE
