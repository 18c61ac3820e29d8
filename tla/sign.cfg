SPECIFICATION FairSpec
CONSTANTS
    T = 3
    S = 3
    Counts = 11
    MaxTry = 2
    Cases <- InStep
    Corrupt = Corrupt
INVARIANTS
    TypeOK
    NoOverrun
    NoMutualWait
    Aligned
    SignInv
PROPERTY
    ImplementsKatService
