SPECIFICATION Spec
CONSTANTS
    Requests = {r1, r2}
    Keys = {opsKey}
    ReservedKeys = {}
    Hashes = {h1}
    None = None
SYMMETRY RequestSymmetry
INVARIANT RetriesStaySafe
CHECK_DEADLOCK FALSE
