CONSTANTS
    Seed = seed
    Others = {other}
    None = None
    MaxRedirects = 1
    NetIdleWait = FALSE
    Misbehaves = FALSE
SPECIFICATION Spec
INVARIANT ExchangeHasResponse
