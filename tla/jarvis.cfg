\* Every order of four requests and wake words.
SPECIFICATION FairSpec
CONSTANT MaxCalls = 4
INVARIANTS TypeOK IdleMeansDisconnected TeardownsHitTheirOwn UsageRecordedOnce
PROPERTY ManagerSettles
CHECK_DEADLOCK FALSE
