SPECIFICATION FairSpec
CONSTANTS
    i1 = i1  i2 = i2  h1 = h1  h2 = h2
    Instance = {i1}
    Handler = {h1, h2}
    HostOf <- Together
    Driver = {d1, d2}
    Req = {r1, r2}
    None = None
    MaxNearby = 1
    LockTTL = 5
    RouteTimeout = 1
    MinDur = 1
    MaxDur = 2
    MaxLag = 1
    Faults = {"SETNX", "REHSET", "DEL", "REDEL", "HDEL"}
    MayCrash = TRUE
    ConcurrentRetries = FALSE
INVARIANTS
    OneTripPerRequest
    EntryCoversTrip
    ActiveTripsExact
PROPERTY LocksHeal
