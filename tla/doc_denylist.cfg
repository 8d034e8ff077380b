SPECIFICATION Spec
CONSTANTS
    Jobs = {j1, j2}
    Hashes = {h1}
    Clients = {c1}
    Purgers = {a1}
    None = None
    Links <- OneLink
    Prefixes <- OnePrefix
    Covered <- MCCovered
    AllowlistOnly = FALSE
    Slots = 1
    RateLimit = 0
    Retention = 0
    TxTimeout = 1
    Batch = 1
    MaxTime = 0
    DbFaults = {}
    S3Faults = {}
    Cancels = FALSE
    Crashes = FALSE
INVARIANT
    CapturesObeyDenylist
