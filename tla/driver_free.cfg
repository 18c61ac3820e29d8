SPECIFICATION FairSpec
CONSTANTS
    Counts = 2
    MsgStep = 2
    SeedLen = 3
    FreeSm <- FreeAny
    Versions <- Streaming
    Typed <- KeyTyped
    Corrupt = Corrupt
PROPERTY
    KatCompletes
