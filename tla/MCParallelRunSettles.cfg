CONSTANTS
    w1 = w1
    w2 = w2
    Null = Null
    WorkerIds = {w1, w2}
    Results = {}
    Creds = {}
    RequestedConcurrency = 1
    ClaimLease = 1
    WorkerTokenTTL = 1
    Leases = {1}
    MaxDelay = 0
    MaxClock = 2
SPECIFICATION Spec
INVARIANT EndedRunIsOver
CHECK_DEADLOCK FALSE
