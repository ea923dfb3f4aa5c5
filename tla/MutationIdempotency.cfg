SPECIFICATION FairSpec
CONSTANTS
    Requests = {r1, r2, r3}
    Keys = {agentKey, opsKey}
    ReservedKeys = {agentKey}
    Hashes = {h1, h2}
    None = None
INVARIANTS
    TypeOK
    OneEffectUnlessExcused
PROPERTIES
    KeepsItsPromise
    NoKeyStaysInProgress
CHECK_DEADLOCK FALSE
