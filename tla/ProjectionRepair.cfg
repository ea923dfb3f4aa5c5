SPECIFICATION FairSpec
CONSTANTS
    MaxText = 2
    MaxFaults = 2
    MaxStrikes = 2
    MaxTries = 3
    Jobs = {1, 2}
    None = None
INVARIANTS
    TypeOK
    HealthyIsCurrent
PROPERTIES
    QuarantineFreezes
    StaleHeals
CHECK_DEADLOCK FALSE
