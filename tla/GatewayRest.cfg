SPECIFICATION RestSpec
CONSTANTS
    Calls = {1, 2, 3}
    Requests <- MCRequests
    Answers <- MCAnswers
    Groups <- MCGroups
    Limit <- MCLimit
    Window <- MCWindow
    Second = 2
    Fallback = 4
    Horizon = 2
INVARIANTS WindowLimit
PROPERTIES PenaltyHonoured EveryCallEnds
