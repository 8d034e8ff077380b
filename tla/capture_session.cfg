CONSTANTS
    Seed = seed
    Others = {other}
    None = None
    MaxRedirects = 1
    NetIdleWait = TRUE
    Misbehaves = TRUE
SPECIFICATION FairSpec
INVARIANTS
    AbortsAreKnown
    TeardownOrder
    NoLostWakeup
    CapturesTheSeed
    MainResponseUnlessError
    InflightIsExact
PROPERTY CaptureEnds
