SPECIFICATION Spec
CONSTANTS
    Clients = {c1, c2}
    Workers = {w1, w2}
    NumSlots = 2
    Requests <- MCRequests
    Writes <- MCWrites
    Verdicts <- MCVerdicts
    StepOf <- MCStepOf
    MaxAttempts = 2
    PageSize = 1
    MaxExtras = 3
    None = None
SYMMETRY Alike
CHECK_DEADLOCK FALSE
INVARIANTS PublishedWithinFrontier FailPolicyHonoured IdentitiesHold
PROPERTIES RefinesLeaseQueue
