CONSTANTS
    NSessions = 3
    P2StartsSlowerThanExecl = TRUE
    OperatorPaced = TRUE
SPECIFICATION Spec
INVARIANTS
    TypeOK
    HolderSignalable
    OpenNeverFindsPortHeld
