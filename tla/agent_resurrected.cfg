SPECIFICATION Spec
CONSTANTS
    d1 = d1 w1 = w1 w2 = w2 h1 = h1 a1 = a1 c1 = c1 c2 = c2
    Nobody = Nobody
    Delegations = {}
    Team <- MCTeam
    Hired = {h1}
    Assigns = {}
    Clients = {c1, c2}
    Ops = {"pause", "resume", "terminate"}
    Permits = 1
    MaxCalls = 2
    MaxFaults = 0
PROPERTY TerminatedIsFinal
CHECK_DEADLOCK FALSE
