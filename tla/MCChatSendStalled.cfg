SPECIFICATION Spec
CONSTANTS
    MaxConns = 2
    MaxFd = 1
    MaxFrames = 2
    Cap = 1
INVARIANTS
    OutputArmed
CHECK_DEADLOCK FALSE
