SPECIFICATION LoopsSpec
CONSTANTS
    Posters = {p1, p2}
    Quitters = {q1}
    Channels = {c1, c2}
    WakeCh = wake
    NoOne = noone
    MaxPosts = 1
    NLoops = 2
    MaxConns = 2
    MaxOthers = 1
INVARIANTS
    AcceptedInOrder
    DrainedAtExit
    NoLostWakeup
    NoUseAfterFree
    NoticeDelivered
    NothingLeftOpen
PROPERTIES
    LoopProgress
    ImplementsExecutor
    ShutdownEnds
CHECK_DEADLOCK FALSE
