SPECIFICATION FairSpec
CONSTANTS
    Plans <- MCOnePlan
    MaxSteps = 2
    c1 = c1
    c2 = c2
    Clients = {c1}
    Kinds = {"pause", "resume", "cancel"}
    MaxRuns = 2
    MaxRequests = 0
    MaxCrashes = 1
PROPERTIES AbandonedWorkRecovered
CHECK_DEADLOCK FALSE
