CONSTANTS
    Kinds = {"Prompt", "Other", "LoadAddr", "Empty"}
    MaxLen = 3
    MaxTries = 3
SPECIFICATION Spec
INVARIANT
    TokenScanContract
