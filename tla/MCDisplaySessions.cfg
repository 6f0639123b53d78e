SPECIFICATION FairSessionSpec
CONSTANTS
    gif = gif
    marquee = marquee
    mqtt = mqtt
    webui = webui
    clock = clock
    gifs_main = gifs_main
    Rotation = rotation
    None = none
    Alerts = {gif, marquee, mqtt}
    WebUi = webui
    Priority <- MCPriority
    Screens = {clock, gifs_main}
    Alias <- MCAlias
    Psram = FALSE
    MaxDepth = 4
INVARIANTS DrawnIsActivated ParentsInOrder
PROPERTIES RotationReturns
CHECK_DEADLOCK FALSE
