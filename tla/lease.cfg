SPECIFICATION Spec
CONSTANTS
    p1 = p1
    p2 = p2
    p3 = p3
    Procs = {p1, p2, p3}
    Skew <- MCSkew
    MaxSkew = 1
    TTL = 6
    Beat = 2
    Lag = 1
    Latency = 1
    MaxTime = 20
INVARIANTS TypeOK NoOverlap
PROPERTIES UnexpiredLeaseKept
CHECK_DEADLOCK FALSE
