CONSTANTS
    Addrs <- MCAddrs
    Masks <- MCMasks
    Targets <- MCTargets
    MaxLines = 5
SPECIFICATION Spec
INVARIANT
    ResolvesWellFormedOutput
