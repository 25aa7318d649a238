SPECIFICATION Spec
CONSTANTS
    NumRuns = 3
    Workers = {w1, w2}
    MaxAttempts = 2
    MaxCrashes = 2
    None = None
SYMMETRY WorkerSymmetry
CHECK_DEADLOCK TRUE
INVARIANTS ResultOfLastLease NoRunStranded
PROPERTIES RefinesLeaseQueue
