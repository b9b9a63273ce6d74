CONSTANTS
    NoKey = NoKey
    NoSealed = NoSealed
    NoCall = NoCall
    Endpoints = {e1, e2, e3}
    Keys = {k1, k2, k3, k4, k5, k6, k7}
    SecretKeys = {s1}
    MaxId = 4
    Agents = {a1, a2}
    Calls = {c1, c2, c3}
    Retries = 2
    MaxDisruptions = 3
SPECIFICATION RegistrationSpec
SYMMETRY InterchangeableAgents
PROPERTIES
    SyncedNodesKeepTheirKey
CHECK_DEADLOCK FALSE
