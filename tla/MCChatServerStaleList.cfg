SPECIFICATION Spec
CONSTANTS
    NLoops = 2
    MaxConns = 2
    MaxFd = 2
    MaxSays = 0
    MaxResets = 0
    Timer = FALSE
    Nicks = {a, b}
    NoNick = nonick
    Everyone = everyone
SYMMETRY Symmetry
INVARIANTS
    ListsFresh
CHECK_DEADLOCK FALSE
