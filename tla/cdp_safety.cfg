SPECIFICATION Spec
CONSTANTS
    Callers = {main, events}
    Sessions = {s1}
    None = None
    MaxId = 3
    MaxEvents = 1
    Misbehaves = FALSE
SYMMETRY Symmetry
CHECK_DEADLOCK FALSE
INVARIANTS
    TypeOK
    ProtocolErrorIsReal
    NobodyStranded
    IgnoredIsOwed
PROPERTIES
    CompletedOnce
