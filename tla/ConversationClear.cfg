SPECIFICATION Spec
CONSTANTS
    t1 = t1
    t2 = t2
    Turn <- TwoTurns
    MaxSteps = 1
    MaxCalls = 1
    Bill <- OneToken
    MaxClears = 1
    MaxCrashes = 0
    MaxFaults = 0
INVARIANTS ClearIsFinal
CHECK_DEADLOCK FALSE
