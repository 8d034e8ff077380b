SPECIFICATION TimedSpec
CONSTANTS
    Jobs = {j1, j2}
    Hashes = {h1}
    Clients = {c1, c2}
    Purgers = {}
    None = None
    Links <- OneLink
    Prefixes <- NoPrefixes
    Covered <- MCCovered
    AllowlistOnly = FALSE
    Slots = 1
    RateLimit = 2
    Retention = 2
    TxTimeout = 1
    Batch = 1
    MaxTime = 3
    DbFaults = {"notApplied", "applied"}
    S3Faults = {}
    Cancels = FALSE
    Crashes = FALSE
INVARIANTS
    RateLimitSpacing
    NoOrphanObject
PROPERTIES
    JobSettlesOrExpires
    LifecycleHolds
