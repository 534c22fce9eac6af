CONSTANTS
    w1 = w1
    r1 = r1
    r2 = r2
    digest = digest
    pass = pass
    Null = Null
    Unproven = Unproven
    WorkerIds = {w1}
    Results = {pass}
    Creds = {}
    RequestedConcurrency = 1
    ClaimLease = 1
    WorkerTokenTTL = 1
    Leases = {1}
    Proofs = {digest}
    Requests = {r1, r2}
    TokenIds = {}
    RunTokenTTL = 1
    RunTokenRequired = FALSE
    HealthInputs = {"", "healthy", "unhealthy"}
    StatusInputs = {"approved", "disabled"}
    MaxDelay = 0
    MaxClock = 1
SYMMETRY Symmetry
SPECIFICATION Spec
INVARIANTS AtMostOneLateClaim
PROPERTIES ResultsSurvive
