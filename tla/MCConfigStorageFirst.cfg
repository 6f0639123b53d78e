CONSTANTS
    Order <- MCOrder
    Gate = {"hardware"}
    Masks <- MCMasks
    Network = "network"
    Links = "links"
    Legacy = "config.json"
    Bak = "config.json.bak"
    BakBak = "config.json.bak.bak"
    LastVersion = 2
    MaxCuts = 0
    MaxFaults = 0

SPECIFICATION StorageSpec
INVARIANT SurvivesWithoutFailure
CHECK_DEADLOCK FALSE
