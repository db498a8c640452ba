SPECIFICATION SurgeSpec
CONSTANTS
    Zone = {z1}
    windowSize = 3
    Horizon = 6
    MaxSupply = 1
    MaxRequests = 3
    MaxLate = 1
    MaxCrashes = 0
    RedisMayFail = FALSE
\* Neither holds; to see the trace of one, take the other out.
PROPERTY FullWindow
PROPERTY NothingStale
