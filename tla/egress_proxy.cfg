SPECIFICATION FairSpec
CONSTANTS
    None = None
    PortMax = 10
    HttpPort = 1
    MaxContentLength = 10
    RunId <- MCRunId
    AuthorityLength = 5
    Connections = 2
    Limit = 2
    MaxChunk = 2
    ReplyBytes = 1
    Requests <- MCRequests
    RequireAuth = TRUE
    Rewrite = TRUE
    LoopbackHosts <- Loopbacks
    LoopbackPorts = {1}
    FixtureHosts <- Fixtures
    FixturePorts = {1}
    PrivateIps <- Loopbacks
    PublicIps = {}
INVARIANTS
    BudgetIsExact
    UncountedIsBounded
    OnlyPublicOrFixture
    ParserIsExact
PROPERTIES
    ServiceHolds
    StopReturns
