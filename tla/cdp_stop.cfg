SPECIFICATION FairSpec
CONSTANTS
    Callers = {main, events}
    Sessions = {}
    None = None
    MaxId = 2
    MaxEvents = 0
    Misbehaves = TRUE
CHECK_DEADLOCK FALSE
PROPERTIES
    FatalEndsCommands
    StopEnds
