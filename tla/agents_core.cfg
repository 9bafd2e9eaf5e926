SPECIFICATION Spec
CONSTANTS
    d1 = d1 w1 = w1 w2 = w2 h1 = h1 a1 = a1 c1 = c1 c2 = c2
    Nobody = Nobody
    Delegations = {d1}
    Team <- MCAlone
    Hired = {h1}
    Assigns = {a1}
    Clients = {c1}
    Ops = {"pause", "resume", "terminate"}
    Permits = 1
    MaxCalls = 2
    MaxFaults = 1
INVARIANTS TypeOK PermitsConserved CompletedIsRecorded
PROPERTY OutcomeKept
CHECK_DEADLOCK FALSE
