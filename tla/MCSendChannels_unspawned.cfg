SPECIFICATION Spec
CONSTANTS
    MaxChannels = 1
    MaxPayloads = 1
    Kinds = {"Ordered"}
    QueueSize = 1
    Oversized = {}
    DropsOnClose = TRUE
INVARIANTS
    CloseFlushesAll
CHECK_DEADLOCK FALSE
