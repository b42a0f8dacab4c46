CONSTANTS
    MaxConns = 2
    MaxParts = 2
    MaxTicks = 1
    PoolWorkers = {w1, w2}
    SUB_NUM = 2
    w1 = w1
    w2 = w2

SPECIFICATION FairSpec

INVARIANTS
    AnswersOwnRequests
    DescriptorsOwned

PROPERTIES
    EveryRequestAnswered

CHECK_DEADLOCK FALSE
