SPECIFICATION Spec
CONSTANTS
    Jobs = {j1, j2, j3}
    Hashes = {h1}
    Clients = {c1}
    Purgers = {a1}
    None = None
    Links <- OneLink
    Prefixes <- MCPrefixes
    Covered <- MCCovered
    AllowlistOnly = FALSE
    Slots = 2
    RateLimit = 0
    Retention = 0
    TxTimeout = 1
    Batch = 1
    MaxTime = 0
    DbFaults = {"notApplied"}
    S3Faults = {"notApplied", "applied"}
    Cancels = TRUE
    Crashes = TRUE
SYMMETRY Symmetry
INVARIANTS
    TypeOK
    CaptureHasObject
    ResultStored
PROPERTIES
    TakedownLasts
