SPECIFICATION Spec
CONSTANTS
    t1 = t1
    u1 = u1
    a1 = a1
    r1 = r1
    e1 = e1
    Mutations = {t1, a1, r1}
    Edits = {e1}
    Kind <- MCKind
    MaxInst = 2
    MaxCalls = 2
    Copy = Copy
    None = None
INVARIANTS
    TypeOK
    DiscardedStaysOut
PROPERTIES
    NothingIsOverwritten
    TokenSeesLive
    RewriteIsAlone
CHECK_DEADLOCK FALSE
