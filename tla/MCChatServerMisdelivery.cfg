SPECIFICATION Spec
CONSTANTS
    NLoops = 2
    MaxConns = 3
    MaxFd = 2
    MaxSays = 1
    MaxResets = 0
    Timer = FALSE
    Nicks = {a, b}
    NoNick = nonick
    Everyone = everyone
SYMMETRY Symmetry
INVARIANTS
    PrivateToAddressee
CHECK_DEADLOCK FALSE
