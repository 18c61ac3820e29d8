SPECIFICATION FairSpec
CONSTANTS
    S = 3
    Counts = 1
    MaxAtt = 4
    Outcomes <- NotSyst
    Cases <- BigNotSyst
    Corrupt = Corrupt
INVARIANT
    NoMutualWait
