CONSTANTS
    NSessions = 2
    P2StartsSlowerThanExecl = TRUE
    OperatorPaced = TRUE
SPECIFICATION Spec
INVARIANT
    RelayKilledOnlyByItsSession
