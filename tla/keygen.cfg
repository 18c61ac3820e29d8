SPECIFICATION FairSpec
CONSTANTS
    S = 4
    Counts = 11
    MaxAtt = 5
    Outcomes <- BeforeReady
    Cases <- InStep
    Corrupt = Corrupt
INVARIANTS
    TypeOK
    NoOverrun
    NoMutualWait
    Aligned
    KeygenInv
    HostNeverCrashes
PROPERTY
    ImplementsKatService
