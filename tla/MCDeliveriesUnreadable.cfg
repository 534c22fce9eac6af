CONSTANTS
    p1 = p1
    p2 = p2
    Null = Null
    Deliveries = {1, 2}
    EndpointEvents = {"*"}
    Unreadable = {1}
    Workers = {p1, p2}
    MaxAttempts = 2
    Backoff <- MCBackoff
    LeaseMayDrop = FALSE
    MaxReplays = 0
    MaxFaults = 0
    MaxClock = 1
SPECIFICATION FairSpec
PROPERTIES EveryDeliverySettles
