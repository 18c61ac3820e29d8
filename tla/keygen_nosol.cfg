SPECIFICATION FairSpec
CONSTANTS
    S = 3
    Counts = 1
    MaxAtt = 4
    Outcomes <- OkOrNoSol
    Cases <- BigNoSol
    Corrupt = Corrupt
INVARIANT
    KatKeyIsReference
