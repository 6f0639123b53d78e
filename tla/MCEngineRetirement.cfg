SPECIFICATION FairSpec
CONSTANTS
    e1 = e1
    e2 = e2
    e3 = e3
    e4 = e4
    Engines <- MCEngines
    Null = Null
    Capacity = 2
    QuarantineCapacity = 1
INVARIANTS
    NoSlotRace
    ReclaimedWhenNotPending
PROPERTIES
    RetiredEnginesLeave
    ImplementsHandover
