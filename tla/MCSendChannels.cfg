SPECIFICATION Spec
CONSTANTS
    MaxChannels = 1
    MaxPayloads = 3
    Kinds = {"Ordered", "Unordered", "Unreliable"}
    QueueSize = 2
    Oversized = {2}
    DropsOnClose = FALSE
INVARIANTS
    TypeOK
    NoSilentLoss
PROPERTIES
    ImplementsFifo
    ChannelCloseFlushes
    DroppedCloses
CHECK_DEADLOCK FALSE
