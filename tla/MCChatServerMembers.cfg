SPECIFICATION Spec
CONSTANTS
    NLoops = 2
    MaxConns = 2
    MaxFd = 2
    MaxSays = 2
    MaxResets = 1
    Timer = FALSE
    Nicks = {a, b}
    NoNick = nonick
    Everyone = everyone
SYMMETRY Symmetry
INVARIANTS
    NamesMatch
    PerSenderOrder
CHECK_DEADLOCK FALSE
