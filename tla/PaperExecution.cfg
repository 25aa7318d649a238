SPECIFICATION Spec
CONSTANTS
    NumIntents = 2
    Workers = {w1, w2}
    Evaluators = {e1}
    Scopes = {"b1"}
    Positions = {"p"}
    ScopesOf <- MCScopesOf
    BotOf <- MCBotOf
    ModeOf <- MCModeOf
    OrderOf <- MCOrderOf
    Limits <- MCLimits
    FillQuantities = {1}
    MaxAttempts = 2
    MaxSwitches = 2
    MaxStages = 1
    MaxCrashes = 2
    None = None
INVARIANTS OneFillPerIntent BudgetAccounting PositionMatchesFills OnlyLostLeasesStrand
PROPERTIES KillSwitchBarrier
