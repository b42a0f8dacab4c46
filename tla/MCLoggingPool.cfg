SPECIFICATION FairLoggingSpec
CONSTANTS
    Workers = {w1, w2}
    Clients = {c1, c2}
    MaxSubmits = 1
    MaxMsgs = 3
    NoTask = notask
INVARIANTS
    NothingLost
    RunsOnce
    DrainedAtEnd
    NoLostWakeup
    WrittenAtExit
    FinishedTasksLogged
PROPERTIES
    AllGetsDone
    DestructorsEnd
CHECK_DEADLOCK FALSE
