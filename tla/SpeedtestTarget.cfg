SPECIFICATION UISpec
INVARIANTS
    NodeTestsMeasureTheNode
CONSTANTS
    MaxId = 2
    Direct = Direct
    NoTarget = NoTarget
    CentralSpeedtest = TRUE
    Calls = {c1}
    Runs = {r1}
    NoRun = NoRun
    MaxTests = 2
    MaxPending = 2
    MaxChanges = 1

CHECK_DEADLOCK FALSE
