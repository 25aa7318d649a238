SPECIFICATION SubmissionSpec
CONSTANTS
    Threads = {1, 2, 3}
    PageSize = 1
    Parts = 10
    FeeRate = 1
    Slippage = 2
    Latency = 1
    Participation = 1
    InitialCash = 1000
    Settings <- MCSettings
    Datasets = {"d1"}
INVARIANTS VerdictIsRight AnswersAreTrue TradesAreCausal EquityAccounted
