SPECIFICATION FairSpec
CONSTANTS
    Plans <- MCOnePlan
    MaxSteps = 2
    c1 = c1
    c2 = c2
    Clients = {c1, c2}
    Kinds = {"pause", "resume", "cancel"}
    MaxRuns = 4
    MaxRequests = 3
    MaxCrashes = 0
INVARIANT RestIsSettled
PROPERTIES RunsEnd TaskSettles
CHECK_DEADLOCK FALSE
