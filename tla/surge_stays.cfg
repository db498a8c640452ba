SPECIFICATION SurgeFairSpec
CONSTANTS
    Zone = {z1}
    windowSize = 3
    Horizon = 6
    MaxSupply = 1
    MaxRequests = 1
    MaxLate = 0
    MaxCrashes = 0
    RedisMayFail = TRUE
\* It does not hold.  For the trace of a restart in place of a failing HDEL take
\* MaxCrashes = 1 and RedisMayFail = FALSE.
PROPERTY MultipliersFade
