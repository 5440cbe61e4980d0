SPECIFICATION Spec
CONSTANTS
    Schema <- Schemas
    Unsupported <- UnsupportedKeys
    Leaf <- Leaves
    Accepts <- LeafAccepts
    Instance <- Instances
INVARIANTS NothingUnsupportedIsLeft SupportedIsKept NothingValidIsExcluded
CHECK_DEADLOCK FALSE
