CONSTANTS
    Order <- MCOrder
    Gate = {"hardware"}
    Masks <- MCMasks
    Network = "network"
    Links = "links"
    Legacy = "config.json"
    Bak = "config.json.bak"
    BakBak = "config.json.bak.bak"
    LastVersion = 2
    MaxCuts = 0
    MaxFaults = 1

SPECIFICATION StorageSpec
PROPERTY AnswerIsTrue
CHECK_DEADLOCK FALSE
