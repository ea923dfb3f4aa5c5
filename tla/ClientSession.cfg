SPECIFICATION FairSpec
CONSTANTS
    Edits = {e1, e2}
    MaxEpoch = 2
    MaxFaults = 1
    MaxAttempts = 1
    None = None
INVARIANTS
    TypeOK
    NothingLostSilently
    RevokedStaysOut
PROPERTIES
    GateReopens
    BufferDrains
CHECK_DEADLOCK FALSE
