SPECIFICATION FairSpec
CONSTANTS
    sandbox = sandbox
    context7 = context7
    read = read
    write = write
    shared = shared
    nowhere = nowhere
    Server <- Servers
    Specs <- SpecOrder
    Tool <- Tools
    Offered <- ToolsOffered
    Idempotent <- IdempotentTools
    Call = {c1, c2}
INVARIANTS NeverAppliedTwice RegistryIsCoherent
PROPERTIES EveryCallReturns
CHECK_DEADLOCK FALSE
