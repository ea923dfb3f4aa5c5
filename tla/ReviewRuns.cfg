SPECIFICATION Spec
CONSTANTS
    Runs = {r1}
    Slots = {s1, s2}
    Creds = {c1, c2}
    Keys = {k1}
    MaxToken = 2
    None = None
SYMMETRY Alike
INVARIANTS
    TypeOK
    AppliedOnce
    PendingIsWorked
PROPERTIES
    HolderDecides
CHECK_DEADLOCK FALSE
