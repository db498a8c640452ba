SPECIFICATION LossSpec
CHECK_DEADLOCK FALSE
CONSTANTS
    q1 = q1  q2 = q2  x1 = x1  x2 = x2  d1 = d1  d2 = d2
    Indexer = {x1}
    Driver = {d1}
    Edge = 2
    Place <- Places
    None = None
    Part = {q1, q2}
    PartOf <- TwoParts
    OwnerOf <- OneIndexer
    Roam <- InTown
    MaxReports = 3
    MaxPoll = 2
    MaxCrashes = 0
    PipeMayBreak = FALSE
    FetchMayFail = TRUE
    MaxTime = 0
    StaleAfter = 0
INVARIANT LatestPosition
