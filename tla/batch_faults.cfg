SPECIFICATION Spec
CHECK_DEADLOCK FALSE
CONSTANTS
    r1 = r1  r2 = r2  d1 = d1  d2 = d2
    Req = {r1, r2}
    Driver = {d1, d2}
    None = None
    Rival = Rival
    RiderAt <- RidersClose
    DriverAt <- TwoDrivers
    Radius = 6
    ChanCap = 1
    MaxTries <- FirstTwice
    MaxRival = 1
    FetchMayFail = TRUE
    LockTTL = 4
    RouteMax = 1
    MinDur = 1
    MaxDur = 2
    Faults = {"HGET", "SETNX", "HSET", "DEL", "HDEL"}
    MayCrash = TRUE
INVARIANT TripsHoldLocks
