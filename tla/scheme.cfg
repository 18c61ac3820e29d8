SPECIFICATION Spec
CONSTANTS
    MEDS_p = 3
    MEDS_n = 2
    MEDS_t = 3
    MEDS_w = 2
    MEDS_s = 3
    MEDS_t_mask = 3
    MEDS_s_mask = 3
    MaxTries = 2
    None = None
    Messages = {"m1", "m2"}
    ToSign = {"m1"}
    SysDraws <- MCSysDraws
    KeyDraws <- MCKeyDraws
    Tilde <- MCTilde
    Damaged <- MCDamaged
INVARIANTS
    TypeOK
    ExactWeight
    Recomputes
PROPERTY KeepsPromise
