SPECIFICATION FairSpec
CONSTANTS
    read = read
    path = path
    doc = doc
    malformed = malformed
    Malformed = malformed
    PathArg = path
    Tool <- MCTool
    ArgName <- MCArgName
    Token <- MCToken
    Condition <- MCCondition
    RuleId <- MCRuleId
    Context <- MCContext
    RuleBody <- MCRuleBody
    Seed <- MCSeed
    ScannedTools <- MCTool
    MaxRules = 1
    c1 = c1
    c2 = c2
    Call = {c1, c2}
    MaxFaults = 0
    MaxCrashes = 1
INVARIANTS
    AnswerIsTheRows
PROPERTIES
    EveryCallEnds
    EveryRequestIsDecided
