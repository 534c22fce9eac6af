CONSTANTS
    w1 = w1
    w2 = w2
    r1 = r1
    r2 = r2
    t1 = t1
    Null = Null
    Unproven = Unproven
    WorkerIds = {w1, w2}
    Results = {}
    Creds = {}
    RequestedConcurrency = 1
    ClaimLease = 1
    WorkerTokenTTL = 1
    Leases = {1}
    Proofs = {}
    Requests = {r1, r2}
    TokenIds = {t1}
    RunTokenTTL = 1
    RunTokenRequired = TRUE
    HealthInputs = {}
    StatusInputs = {}
    MaxDelay = 1
    MaxClock = 2
SYMMETRY Symmetry
SPECIFICATION Spec
INVARIANTS TypeOK TokenPaysOnce WorkersPaid
PROPERTIES TokenStampsStand
