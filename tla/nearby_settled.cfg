SPECIFICATION SupplySpec
CHECK_DEADLOCK FALSE
CONSTANTS
    q1 = q1  x1 = x1  d1 = d1  d2 = d2
    Indexer = {x1}
    Driver = {d1, d2}
    Edge = 2
    Place <- Places
    None = None
    Part = {q1}
    PartOf <- OnePart
    OwnerOf <- Owner
    Roam <- OneMoves
    MaxReports = 2
    MaxPoll = 1
    MaxCrashes = 1
    PipeMayBreak = FALSE
    FetchMayFail = FALSE
    MaxTime = 0
    StaleAfter = 0
    Asked <- Corner
    Radii <- Given
    Usual = 3
    Zone <- Zones
INVARIANTS
    SupplyTypeOK
    SettledDriversExact
    SupplyExact
    IndexExact
    LatestPosition
