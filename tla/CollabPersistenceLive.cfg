SPECIFICATION FairSpec
CONSTANTS
    Edits = {e1}
    MaxInst = 2
    MaxGen = 1
    Copy = Copy
    None = None
INVARIANT DiscardedStaysDiscarded
PROPERTY EveryEditSettles
CHECK_DEADLOCK FALSE
