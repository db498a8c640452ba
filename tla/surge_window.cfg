SPECIFICATION SurgeFairSpec
CONSTANTS
    Zone = {z1, z2}
    windowSize = 3
    Horizon = 6
    MaxSupply = 2
    MaxRequests = 2
    MaxLate = 1
    MaxCrashes = 1
    RedisMayFail = TRUE
INVARIANT SurgeTypeOK
PROPERTIES
    WindowSlides
    SurgeFades
