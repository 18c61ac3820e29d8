SPECIFICATION Spec
CONSTANTS
    MEDS_p = 3
    MEDS_n = 3
    Fields <- MCFields
    Values <- MCValues
    Draws <- MCDraws
INVARIANTS
    TypeOK
    InverseIsInverse
    KeepsInvertible
    SolveIsExact
    SystIsExact
    KeyInverts
    PkHoldsG
