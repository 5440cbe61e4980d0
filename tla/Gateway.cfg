SPECIFICATION Spec
CONSTANTS
    read = read
    path = path
    doc = doc
    malformed = malformed
    Malformed = malformed
    PathArg = path
    Tool <- MCTool
    ArgName <- MCArgName
    Token <- MCToken
    Condition <- MCCondition
    RuleId <- MCRuleId
    Context <- MCContext
    RuleBody <- MCRuleBody
    Seed <- MCSeed
    ScannedTools <- MCTool
    MaxRules = 2
    c1 = c1
    c2 = c2
    Call = {c1}
    MaxFaults = 1
    MaxCrashes = 2
INVARIANTS
    Authorised
    NoLostWakeup
    PendingIsAttended
    AuditIsTruthful
    LedgerIsTruthful
PROPERTIES
    FirstDecisionStands
    ImplementsGuardedExecution
