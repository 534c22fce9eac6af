CONSTANTS
    a1 = a1
    a2 = a2
    digest = digest
    Unproven = Unproven
    AgentIds = {a1, a2}
    Proofs = {digest}
    MaxClock = 1
SPECIFICATION Spec
INVARIANTS TypeOK
PROPERTIES StatusIsManaged
