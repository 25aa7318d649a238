SPECIFICATION FairSpec
CONSTANTS
    Workers = {w1, w2}
    NumSlots = 3
    Chunk = 1
    Batch = 3
    MaxAttempts = 2
    PageSize = 1
    Plans <- MCPlans
    MaxExtras = 2
    None = None
CHECK_DEADLOCK FALSE
INVARIANTS SeriesIsPointInTime PagesAgree
PROPERTIES EveryInvalidationEnds
