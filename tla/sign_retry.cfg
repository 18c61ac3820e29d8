SPECIFICATION FairSpec
CONSTANTS
    T = 3
    S = 2
    Counts = 1
    MaxTry = 2
    Cases <- BigRetry
    Corrupt = Corrupt
INVARIANT
    KatSmIsReference
