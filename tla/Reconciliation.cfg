SPECIFICATION FairSpec
CONSTANTS
    PaperOrder = PaperOrder
    LiveOrder = LiveOrder
    Holding = Holding
    r1 = r1
    r2 = r2
    None = None
    Absent = Absent
    Orders = {PaperOrder, LiveOrder}
    ModeOf <- Modes
    PositionOf <- OnePosition
    Positions = {Holding}
    RunKeys = {"monday", "tuesday"}
    DirectRequests <- Requests
    Exchanged = {LiveOrder}
    Market <- MarketTrades
    Endings = {"done", "prevented"}
    MaxTrades = 2
    TradeFee = 4
    Strays <- StrayPayloads
    Scale = 2
    Recorded <- PaperRecorded
    Opening <- HoldsOne
    Reconcilers = {r1, r2}
    PaperMoves <- Moves
    MaxPaperFills = 1
    Taken <- MondayTaken
    Elsewhere = Elsewhere
INVARIANTS LedgerExplained PositionMatchesFills LedgerMatchesExchange SnapshotsAgree
PROPERTIES EveryRequestEnds
