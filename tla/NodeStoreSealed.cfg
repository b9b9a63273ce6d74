CONSTANTS
    NoKey = NoKey
    NoSealed = NoSealed
    Endpoints = {e1}
    Keys = {k1, k2}
    SecretKeys = {s1, s2}
    MaxId = 1
SPECIFICATION Spec
PROPERTIES
    SealedModeProbesAutomatically
