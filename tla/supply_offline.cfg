SPECIFICATION SupplySpec
CHECK_DEADLOCK FALSE
CONSTANTS
    q1 = q1  x1 = x1  d1 = d1  d2 = d2
    Indexer = {x1}
    Driver = {d1}
    Edge = 2
    Place <- Places
    None = None
    Part = {q1}
    PartOf <- OnePart
    OwnerOf <- Owner
    Roam <- Everywhere
    MaxReports = 2
    MaxPoll = 2
    MaxCrashes = 1
    PipeMayBreak = FALSE
    FetchMayFail = FALSE
    MaxTime = 2
    StaleAfter = 1
    Asked <- Corner
    Radii <- Given
    Usual = 3
    Zone <- Zones
\* Neither holds; to see the trace of one, take the other out.
INVARIANT OfflineFiltered
INVARIANT SupplyIsAvailable
