SPECIFICATION FairSpec
CONSTANTS
    T = 13
    W = 3
    H = 4
    Pow <- Powers
    MaxPath = 7
    Challenges <- AllChallenges
INVARIANTS
    TypeOK
    NoLeak
    PathCovers
    PathFits
    PathIsReference
PROPERTY
    ImplementsSeedReveal
