SPECIFICATION SpecRules
CONSTANTS
    read = read
    write = write
    path = path
    other = other
    pub = pub
    doc = doc
    malformed = malformed
    Malformed = malformed
    PathArg = path
    Tool <- MCTool
    ArgName <- MCArgName
    Token <- MCToken
    Condition <- MCCondition
    RuleId <- MCRuleId
    Context <- MCContext
    RuleBody <- MCRuleBody
    Seed <- MCSeed
    MaxRules = 3
INVARIANTS
    FailClosed
    OrderIndependent
    ExplanationSuffices
    TableIsSound
PROPERTIES
    OnlyTightens
