CONSTANTS
    w1 = w1
    r1 = r1
    r2 = r2
    c1 = c1
    c2 = c2
    Null = Null
    Unproven = Unproven
    WorkerIds = {w1}
    Results = {}
    Creds = {c1, c2}
    RequestedConcurrency = 1
    ClaimLease = 1
    WorkerTokenTTL = 1
    Leases = {1}
    Proofs = {}
    Requests = {r1, r2}
    TokenIds = {}
    RunTokenTTL = 1
    RunTokenRequired = FALSE
    HealthInputs = {}
    StatusInputs = {}
    MaxDelay = 1
    MaxClock = 2
SYMMETRY Symmetry
SPECIFICATION Spec
INVARIANTS CheckedWorkerIsKnown
PROPERTIES NewestTokenStands ImplementsParallelRun
