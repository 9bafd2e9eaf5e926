SPECIFICATION FairSpec
CONSTANTS
    d1 = d1 w1 = w1 w2 = w2 h1 = h1 a1 = a1 c1 = c1 c2 = c2
    Nobody = Nobody
    Delegations = {d1}
    Team <- MCTeam
    Hired = {}
    Assigns = {}
    Clients = {c1}
    Ops = {"terminate"}
    Permits = 1
    MaxCalls = 1
    MaxFaults = 0
INVARIANT WorkersRetired
PROPERTY DelegationEnds
CHECK_DEADLOCK FALSE
