SPECIFICATION FairSpec
CONSTANTS
    clock = clock
    gifs = gifs
    Instances <- MCInstances
    Objects = 4
    None = none
    Garbage = garbage
    Lists <- MCLists
    Heavy = {gifs}
    Fallback = clock
    Psram = TRUE
    QueueCapacity = 2
    MaxSlots = 3
    RingCapacity = 1
    MaxEdits = 2
PROPERTIES EditTakesEffect
