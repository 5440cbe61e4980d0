SPECIFICATION FairSpec
CONSTANTS
    r1 = r1
    Request <- OneRequest
    MaxTroubles = 4
INVARIANTS NothingHidden NoGhosts
PROPERTIES PendingBecomesVisible
CHECK_DEADLOCK FALSE
