SPECIFICATION Spec
CONSTANTS
    Plans <- MCOnePlan
    MaxSteps = 2
    c1 = c1
    c2 = c2
    Clients = {c1}
    Kinds = {"pause", "resume", "cancel"}
    MaxRuns = 3
    MaxRequests = 2
    MaxCrashes = 0
INVARIANTS CancelIsTerminal
CHECK_DEADLOCK FALSE
