SPECIFICATION FairSpec
CONSTANTS
    g1 = g1
    g2 = g2
    w1 = w1
    Guards <- MCGuards
    Writers <- MCWriters
    Worker = Worker
    Nobody = Nobody
    NoView = NoView
    MaxLive = 2
    MaxVersion = 4
INVARIANTS
    BorrowedSlotStable
    NothingLost
PROPERTIES
    DeferralEnds
    ImplementsRegister
