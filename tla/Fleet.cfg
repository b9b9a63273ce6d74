CONSTANTS
    NoKey = NoKey
    NoSealed = NoSealed
    NoCall = NoCall
    Endpoints = {e1, e2}
    Keys = {k1, k2}
    SecretKeys = {s1}
    MaxId = 2
    Agents = {a1}
    Calls = {c1}
    Retries = 1
    MaxDisruptions = 2
    Probes = {p1, p2}
SPECIFICATION FleetSpec
SYMMETRY InterchangeableParts
INVARIANTS
    FleetTypeOK
    ProbeIsAboutItsRow
    HealthColumnsCoherent
    RequestsFitTheirNode
PROPERTIES
    ResultStaysWithRegistration
