SPECIFICATION FairSpec
CONSTANTS
    None = None
    Runs <- MCRuns
    CgroupRuns <- Crawls
    Stage = TRUE
    FsFaults = TRUE
    Cancels = TRUE
    Clients = {c1}
    Limit = 3
    HttpsOnly = FALSE
    MaxArchive = 2
    Ratio = 2
    MaxI64 = 3
INVARIANTS
    NothingOutlivesTheSession
    LitterHasAnExcuse
    StoredIsWithinLimits
PROPERTIES
    FallbackOnlyUnanswered
    RunEnds
