SPECIFICATION FairSpec
CONSTANTS
    Conn = {c1, c2}
    Key = {k1}
    Cap = 2
    MaxRecords = 4
PROPERTY BroadcastsEnd
PROPERTY LeaversLeave
INVARIANT TypeOK
INVARIANT NeverSendsOnClosed
INVARIANT InOrderOnce
PROPERTY ImplementsStream
