SPECIFICATION Spec
CONSTANTS
    Processes = {p1, p2, p3}
    Keys = {k1, k2, k3, k4}
    NoKey = NoKey
    Invalid = Invalid
    MaxFaults = 2
INVARIANTS
    TypeOK Decryptable
PROPERTIES
    ImplementsChoice
CHECK_DEADLOCK FALSE
