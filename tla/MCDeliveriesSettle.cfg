CONSTANTS
    p1 = p1
    p2 = p2
    Null = Null
    Deliveries = {1, 2}
    EndpointEvents = {"*"}
    Unreadable = {}
    Workers = {p1, p2}
    MaxAttempts = 2
    Backoff <- MCBackoff
    LeaseMayDrop = FALSE
    MaxReplays = 1
    MaxFaults = 1
    MaxClock = 1
SPECIFICATION FairSpec
PROPERTIES EveryDeliverySettles
