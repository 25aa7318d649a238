SPECIFICATION RollupSpec
CONSTANTS
    c1 = c1
    c2 = c2
    Collectors = {c1, c2}
    Aggregators = {w1}
    NumMinutes = 3
    BucketSize = 2
    Pages = {{0}, {1, 2}}
    Contents = {"a", "b"}
    MaxOutputBuckets = 2
    MaxTries = 1
    MaxFetches = 2
    MaxAggregations = 1
    MaxIncidents = 1
    Verdicts = {"no_trade"}
    Spans = {{0}, {1}, {0, 1, 2}}
    Nothing = Nothing
SYMMETRY Alike
CHECK_DEADLOCK FALSE
INVARIANTS SettledFrontier SettledRollupIsCurrent
