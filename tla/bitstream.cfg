SPECIFICATION Spec
CONSTANTS
    Shapes <- MCShapes
    Fills <- MCFills
    Values <- MCValues
INVARIANTS
    TypeOK
    Fits
    Packed
    RoundTrip
