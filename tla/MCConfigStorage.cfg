CONSTANTS
    Order <- MCOrder
    Gate = {"hardware"}
    Masks <- MCMasks
    Network = "network"
    Links = "links"
    Legacy = "config.json"
    Bak = "config.json.bak"
    BakBak = "config.json.bak.bak"
    LastVersion = 2
    MaxCuts = 1
    MaxFaults = 2

SPECIFICATION StorageSpec
INVARIANTS
    SeededSurvives
    SecondCopySurvives
    NeverTorn
CHECK_DEADLOCK FALSE
