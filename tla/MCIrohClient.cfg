SPECIFICATION ClientSpec
CONSTANTS
    Ids <- MCIds
    NoChannel = NoChannel
    Configured <- MCConfigured
    CreateQueueSize = 1
    Connections <- MCConnections
    Focus = 0
    NoConnection = NoConnection
INVARIANTS
    TypeOK
    OpenIdsAreTaken
    RunConditionsTellNews
PROPERTIES
    DefaultStaysTaken
    LocalIdsNameOneConnection
