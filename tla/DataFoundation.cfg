SPECIFICATION Spec
CONSTANTS
    Markets = {1, 2}
    Workers = {w1, w2}
    MaxAttempts = 2
    MaxTime = 2
    Plans <- MCPlans
    Replies <- MCReplies
    MaxExtras = 3
    Catalogs <- MCCatalogs
    Policies <- MCPolicies
    None = None
    Gone = Gone
SYMMETRY Alike
CHECK_DEADLOCK FALSE
INVARIANTS SucceededIsAnswered OneOpenJobPerMarket OffMarketsAreQuiet
PROPERTIES NoSlotForgotten
