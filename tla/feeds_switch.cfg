SPECIFICATION FairSpec
CONSTANTS
    Poller = {p1, p2}
    None = None
    pollEvery = 2
    MaxRows = 1
    ShortRows = TRUE
    MayFail = TRUE
    MaxToggles = 4
INVARIANT TypeOK
INVARIANT OneLivePoller
PROPERTY CancelledEnd
PROPERTY StatusRecovers
