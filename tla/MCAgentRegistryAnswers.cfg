CONSTANTS
    a1 = a1
    a2 = a2
    digest = digest
    Unproven = Unproven
    AgentIds = {a1}
    Proofs = {digest}
    MaxClock = 1
SPECIFICATION Spec
INVARIANT NotFoundMeansUnknown
