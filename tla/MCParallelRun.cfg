CONSTANTS
    w1 = w1
    w2 = w2
    w3 = w3
    Null = Null
    WorkerIds = {w1, w2, w3}
    Results = {}
    Creds = {}
    RequestedConcurrency = 2
    ClaimLease = 1
    WorkerTokenTTL = 1
    Leases = {1, 2}
    MaxDelay = 1
    MaxClock = 3
SYMMETRY WorkerSymmetry
SPECIFICATION Spec
INVARIANTS TypeOK CountersMatchWorkers OutcomeIsWhole VerdictExplained StampsWithinDelay
    HeartbeatSettles
PROPERTIES TerminalIsFinal NewWorkerFitsConcurrency NoPrematureLoss SilentWorkersFound
    RenewalInTime NoRevival  ImplementsLifecycle
CHECK_DEADLOCK FALSE
