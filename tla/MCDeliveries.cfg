CONSTANTS
    p1 = p1
    p2 = p2
    Null = Null
    Deliveries = {1}
    EndpointEvents = {"*"}
    Unreadable = {}
    Workers = {p1, p2}
    MaxAttempts = 3
    Backoff <- MCBackoff
    LeaseMayDrop = TRUE
    MaxReplays = 2
    MaxFaults = 1
    MaxClock = 2
SYMMETRY WorkerSymmetry
SPECIFICATION Spec
INVARIANTS TypeOK RetriesBounded PostsExplained
PROPERTIES AttemptFinalizedOnce
