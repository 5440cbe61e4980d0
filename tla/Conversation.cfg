SPECIFICATION Spec
CONSTANTS
    t1 = t1
    t2 = t2
    Turn <- TwoTurns
    MaxSteps = 1
    MaxCalls = 2
    Bill <- OneToken
    MaxClears = 1
    MaxCrashes = 1
    MaxFaults = 1
SYMMETRY TurnSymmetry
INVARIANTS RestartChangesNothing ResponsesFollowCalls UndisturbedClearIsFinal
    ToolsSeeTheirTurnsTokens UsageIsNeverOvercounted AnsweredTurnsAreDurable
    OwnResponsesFollowCalls
CHECK_DEADLOCK FALSE
