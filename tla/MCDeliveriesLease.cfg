CONSTANTS
    p1 = p1
    p2 = p2
    Null = Null
    Deliveries = {1}
    EndpointEvents = {"*"}
    Unreadable = {}
    Workers = {p1, p2}
    MaxAttempts = 2
    Backoff <- MCBackoff
    LeaseMayDrop = TRUE
    MaxReplays = 0
    MaxFaults = 0
    MaxClock = 1
SPECIFICATION Spec
INVARIANT SingleConsumer
