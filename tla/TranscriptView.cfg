SPECIFICATION Spec
CONSTANTS
    t1 = t1
    t2 = t2
    c1 = c1
    c2 = c2
    Turn = {t1, t2}
    Call = {c1}
    Limit = 2
    MaxTroubles = 1
SYMMETRY Alike
INVARIANTS NothingIsStranded LiveIsReplay
CHECK_DEADLOCK FALSE
