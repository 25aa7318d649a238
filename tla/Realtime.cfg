SPECIFICATION FairSpec
CONSTANTS
    Markets = {m1}
    Types = {"trade_event", "orderbook_snapshot"}
    v1 = v1
    v2 = v2
    Workers = {v1, v2}
    MaxAttempts = 2
    Bounds <- MCBounds
CHECK_DEADLOCK FALSE
INVARIANTS AvailableKeepsItsFrames AppliedIsSubscribed NoTradeForgotten
PROPERTIES EveryInvalidationEnds
