SPECIFICATION LossSpec
CHECK_DEADLOCK FALSE
CONSTANTS
    q1 = q1  q2 = q2  x1 = x1  x2 = x2  d1 = d1  d2 = d2
    Indexer = {x1}
    Driver = {d1}
    Edge = 2
    Place <- Places
    None = None
    Part = {q1, q2}
    PartOf <- TwoParts
    OwnerOf <- OneIndexer
    Roam <- InTown
    MaxReports = 3
    MaxPoll = 2
    MaxCrashes = 1
    PipeMayBreak = TRUE
    FetchMayFail = TRUE
    MaxTime = 1
    StaleAfter = 0
PROPERTIES
    PositionsMoveForward
    OnlyGivenUpAreLost
