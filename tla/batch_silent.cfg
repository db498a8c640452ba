SPECIFICATION FairSpec
CHECK_DEADLOCK FALSE
CONSTANTS
    r1 = r1  r2 = r2  d1 = d1  d2 = d2
    Req = {r1, r2}
    Driver = {d1}
    None = None
    Rival = Rival
    RiderAt <- RidersApart
    DriverAt <- OneDriver
    Radius = 3
    ChanCap = 2
    MaxTries <- Once
    MaxRival = 0
    FetchMayFail = FALSE
    LockTTL = 3
    RouteMax = 1
    MinDur = 1
    MaxDur = 1
    Faults = {}
    MayCrash = FALSE
PROPERTY RidersHear
