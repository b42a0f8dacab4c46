CONSTANTS
    MaxConns = 1
    MaxParts = 2
    MaxTicks = 0
    PoolWorkers = {w1}
    SUB_NUM = 1
    w1 = w1

SPECIFICATION Spec

INVARIANTS
    GluedRequestsAnswered

CHECK_DEADLOCK FALSE
