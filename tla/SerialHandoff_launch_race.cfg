CONSTANTS
    NSessions = 2
    P2StartsSlowerThanExecl = FALSE
    OperatorPaced = TRUE
SPECIFICATION Spec
INVARIANT
    OpenNeverFindsPortHeld
