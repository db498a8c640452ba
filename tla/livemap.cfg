SPECIFICATION LiveMapFairSpec
CONSTANTS
    MaxIds = 2
    MaxDrivers = 2
    Slider <- AnySlider
    Tab = tab
    Conn = {tab}
    Record <- Message
    Cap = 1
    MaxMissed = 0
    Req = {r1}
    None = None
    MaxAsks = 2
    TrackLife = 0
    WaitLife = 0
INVARIANTS LiveMapTypeOK MapExact
PROPERTIES FleetFades PinsFade
\* Does not hold; to see the trace, uncomment:
\* PROPERTY GhostsFade
