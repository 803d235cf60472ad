SPECIFICATION FairSpec
CONSTANTS
    Channels <- MCChannels
    Ordered <- MCOrdered
    Unreliable <- MCUnreliable
    MaxSent = 3
    Limit <- MCLimit
    MaxResets = 1
    QueueSize = 2
    MaxBuffered = 1
    MaxRecvChannels = 2
    Overlong <- MCOverlong
    Undecodable <- MCOrdered
    ClearStale = FALSE
    OnServer = TRUE
INVARIANTS
    TypeOK
    ReadInOrder
    EveryPayloadInOnePlace
    BufferBounded
    ChannelsBounded
PROPERTIES
    PayloadsArrive
