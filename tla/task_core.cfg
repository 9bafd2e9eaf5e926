SPECIFICATION Spec
CONSTANTS
    Plans <- MCTwoPlans
    MaxSteps = 2
    c1 = c1
    c2 = c2
    Clients = {c1, c2}
    Kinds = {"pause", "resume", "cancel"}
    MaxRuns = 4
    MaxRequests = 2
    MaxCrashes = 1
SYMMETRY MCCallers
INVARIANTS TypeOK OneExecutor CheckpointBacked SuccessHasEvidence StepsInOrder
PROPERTY LedgerKept
CHECK_DEADLOCK FALSE
