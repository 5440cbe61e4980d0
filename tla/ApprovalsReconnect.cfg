SPECIFICATION FairSpec
CONSTANTS
    r1 = r1
    Request <- OneRequest
    MaxTroubles = 1
PROPERTIES ReconnectKeepsPending
CHECK_DEADLOCK FALSE
