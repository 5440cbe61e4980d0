SPECIFICATION FairSpec
CONSTANTS
    Client = {c1, c2}
    Call = {k1, k2}
    Events = 3
    Buffer = 1
INVARIANTS NothingSkipped
PROPERTIES EveryCallEnds
CHECK_DEADLOCK FALSE
