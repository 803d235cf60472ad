SPECIFICATION Spec
CONSTANTS
    Ids <- MCNone
    NoChannel = NoChannel
    Configured <- MCNone
    CreateQueueSize = 0
    InboxSize = 1
    MaxStarts = 1
    ServerReports = 0
    MaxAttempts = 1
    MaxReports = 1
INVARIANTS
    ConnectedIsAnnounced
CHECK_DEADLOCK FALSE
PROPERTIES
    ConnectingResolves
    GivenUpIsRemoved
    EndIsNoticed
