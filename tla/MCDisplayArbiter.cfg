SPECIFICATION FairSpec
CONSTANTS
    Engines <- MCEngines
    Order <- MCOrder
    Forms <- MCForms
    Priority <- MCPriority
    Rotation = "ROTATION"
    WebUi = "WEBUI_SYNC"
    Idle = Idle
    MaxRequests = 4
    QueueCapacity = 3
    Stalls = {TRUE, FALSE}
    WebBurst = 1
    MaxId = 6
INVARIANTS
    AgreesUnlessDropped
    RoomForEverySource
PROPERTIES
    StandingRequestShown
