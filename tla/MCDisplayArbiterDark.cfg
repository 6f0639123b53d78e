SPECIFICATION FairSpec
CONSTANTS
    Engines <- MCEngines
    Order <- MCOrder
    Forms <- MCForms
    Priority <- MCPriority
    Rotation = "ROTATION"
    WebUi = "WEBUI_SYNC"
    Idle = Idle
    MaxRequests = 4
    QueueCapacity = 3
    Stalls = {TRUE}
    WebBurst = 1
    MaxId = 5
INVARIANTS
    ActiveUntilCancelled
