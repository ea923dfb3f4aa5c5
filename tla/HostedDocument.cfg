SPECIFICATION FairSpec
CONSTANTS
    NumCalls = 3
    None = None
    Page = 2
INVARIANTS
    TypeOK
    LostOnlyToOverlap
    BaseIsHonoured
    AppliedOnce
PROPERTY EveryChangeIsTold
CHECK_DEADLOCK FALSE
