SPECIFICATION Spec
CONSTANTS
    None = None
    Dot = 1
    Slash = 2
    MaxByte = 4
    LabelMax = 2
    BoundLength = 3
    PathLength = 4
    Captures <- MCCaptures
    Standing <- MCStanding
    Prefix <- MCPrefix
    Confs <- MCConfs
    MaxChanges = 2
    MaxFaults = 1
INVARIANTS
    TypeOK
    WalkIsOrdered
    WalkIsComplete
    KeysAreExact
PROPERTIES
    PreviousIsAdjacent
