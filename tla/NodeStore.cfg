CONSTANTS
    NoKey = NoKey
    NoSealed = NoSealed
    Endpoints = {e1, e2}
    Keys = {k1, k2, k3, k4}
    SecretKeys = {s1, s2}
    MaxId = 3
SPECIFICATION Spec
SYMMETRY Interchangeable
INVARIANTS
    IInv
    ResolvedKeyIsCurrent
PROPERTIES
    LeaseSpec
    RetiredForever
