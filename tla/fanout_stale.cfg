SPECIFICATION Spec
CONSTANTS
    Conn = {c1}
    Key = {k1, k2}
    Cap = 2
    MaxRecords = 5
INVARIANT LatestWins
