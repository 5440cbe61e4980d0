SPECIFICATION Spec
CONSTANTS
    root = root
    sibling = sibling
    a = a
    b = b
    up_ = up
    x = x
    y = y
    partial = partial
    dir = dir
    Name <- Names
    Root <- RootPath
    World <- Outside
    Argument <- Arguments
    Up = up
    Content <- Texts
    Partial = partial
    Dir = dir
    MaxDepth = 4
    MaxNodes = 8
INVARIANTS Confined
PROPERTIES AnswersAreTrue ImplementsFileStore
