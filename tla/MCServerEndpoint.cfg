SPECIFICATION FairSpec
CONSTANTS
    Peers = {p1, p2}
    Ids <- MCIds
    NoChannel = NoChannel
    Configured <- MCIds
    CreateQueueSize = 1
    InboxSize = 1
    MaxReports = 1
    MaxStarts = 2
INVARIANTS
    TypeOK
    EventsOfAClient
    TableMatchesEvents
    OpenForAll
    AvailableIsUnused
    NoClientCountedTwice
PROPERTIES
    LostClientRemoved
    RemovedClientClosed
CHECK_DEADLOCK FALSE
