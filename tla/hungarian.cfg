SPECIFICATION FairSpec
CHECK_DEADLOCK FALSE
CONSTANTS
    MaxRiders = 3
    MaxDrivers = 3
    MaxCost = 2
    Big = 100
INVARIANTS
    TypeOK
    Certified
    ReturnsBest
PROPERTY Terminates
