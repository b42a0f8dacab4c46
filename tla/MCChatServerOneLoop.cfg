SPECIFICATION FairSpec
CONSTANTS
    NLoops = 1
    MaxConns = 3
    MaxFd = 2
    MaxSays = 1
    MaxResets = 1
    Timer = TRUE
    Nicks = {a, b}
    NoNick = nonick
    Everyone = everyone
INVARIANTS
    PrivateToAddressee
    ListsFresh
    BatchAlive
PROPERTIES
    NewUserListed
