SPECIFICATION FairBridgeSpec
CONSTANTS
    Viewers = {v1, v2}
    Shipped = {v1}
    Calls = {c1}
INVARIANTS
    BridgeTypeOK
    PendingIsAwaited
    SecondEffectOnlyAfterGivingUp
PROPERTY EveryCallSettles
CHECK_DEADLOCK FALSE
