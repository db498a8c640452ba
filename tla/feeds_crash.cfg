SPECIFICATION Spec
CONSTANTS
    Poller = {p1, p2}
    None = None
    pollEvery = 2
    MaxRows = 2
    ShortRows = TRUE
    MayFail = TRUE
    MaxToggles = 2
\* Neither holds; to see the trace of one, take the other out.
INVARIANT NeverCrashes
PROPERTY BacksOff
