SPECIFICATION Spec
CONSTANTS
    i1 = i1  i2 = i2  h1 = h1  h2 = h2
    Instance = {i1, i2}
    Handler = {h1, h2}
    HostOf <- Apart
    Driver = {d1, d2}
    Req = {r1}
    None = None
    MaxNearby = 2
    LockTTL = 5
    RouteTimeout = 1
    MinDur = 1
    MaxDur = 2
    MaxLag = 1
    Faults = {}
    MayCrash = FALSE
    ConcurrentRetries = TRUE
INVARIANT OneTripPerRequest
