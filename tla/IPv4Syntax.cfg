CONSTANTS
    Classes = {"dec", "zero", "dec32"}
    MaxParts = 5
SPECIFICATION Spec
INVARIANT
    IPv4ValidityContract
