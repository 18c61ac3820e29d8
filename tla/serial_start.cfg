SPECIFICATION FairSpec
CONSTANTS
    Counts = 1
    MsgStep = 2
    SeedLen = 3
    FreeSm <- FreeReturns
    Versions <- Serial
    Typed <- NothingTyped
    Corrupt = Corrupt
INVARIANT
    NoMutualWait
