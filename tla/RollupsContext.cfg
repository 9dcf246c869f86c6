SPECIFICATION Spec
CONSTANTS
    Start <- Three
    MinCluster = 2
    MaxDepth = 2
    RestoreViews = FALSE
    MaxRows = 6
    MaxChanges = 2
INVARIANTS
    TypeOK
    ViewsHold
    NobodyIsLost
PROPERTIES
    ContextIsKept
CHECK_DEADLOCK FALSE
