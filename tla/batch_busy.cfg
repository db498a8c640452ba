SPECIFICATION Spec
CHECK_DEADLOCK FALSE
CONSTANTS
    r1 = r1  r2 = r2  d1 = d1  d2 = d2
    Req = {r1, r2}
    Driver = {d1, d2}
    None = None
    Rival = Rival
    RiderAt <- RidersClose
    DriverAt <- TwoDrivers
    Radius = 6
    ChanCap = 1
    MaxTries <- FirstTwice
    MaxRival = 0
    FetchMayFail = FALSE
    LockTTL = 3
    RouteMax = 1
    MinDur = 1
    MaxDur = 1
    Faults = {}
    MayCrash = FALSE
\* Neither holds; to see the trace of one, take the other out.
INVARIANT GloballyMinimal
INVARIANT OneTripPerRider
