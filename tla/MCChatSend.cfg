SPECIFICATION Spec
CONSTANTS
    MaxConns = 2
    MaxFd = 2
    MaxFrames = 2
    Cap = 1
INVARIANTS
    EpollsMatch
    HalfCloseAnswersAll
    OutputArmedUnlessReused
    NoIdleWritable
CHECK_DEADLOCK FALSE
