CONSTANTS
    Variants = {"net", "serial"}
    MaxChunks = 3
SPECIFICATION Spec
INVARIANT
    TypeOK
PROPERTIES
    EndpointLossEndsRelay
    LegEndsOnlyOnLoss
