SPECIFICATION FairSpec
CONSTANTS
    Counts = 4
    MsgStep = 2
    SeedLen = 3
    FreeSm <- FreeReturns
    Versions <- Both
    Typed <- KeyTyped
    Corrupt = Corrupt
INVARIANTS
    TypeOK
    NoOverrun
    NoMutualWait
    Aligned
    DriverInv
PROPERTY
    ImplementsKatService
