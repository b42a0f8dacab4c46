SPECIFICATION FairWindowSpec
CONSTANTS
    Statuses = {200, 404}
    MaxResponse = 1
    MaxBody = 2
    Total = 3
    Concurrency = 2
    MaxRuns = 2
    MaxCalls = 2
    MaxSignals = 1
    MaxSends = 1
INVARIANTS
    ResultsHonest
    CountsAddUp
    StopsItsOwnRun
    WindowConsistent
PROPERTIES
    WaitsEnd
CHECK_DEADLOCK FALSE
