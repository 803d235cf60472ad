SPECIFICATION Spec
CONSTANTS
    MaxChannels = 2
    MaxPayloads = 2
    Kinds = {"Ordered", "Unordered", "Unreliable"}
    QueueSize = 1
    Oversized = {1}
    DropsOnClose = TRUE
INVARIANTS
    NoDuplicates
    CloseFlushesSpawned
CHECK_DEADLOCK FALSE
