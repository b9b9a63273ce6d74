SPECIFICATION FairUISpec
INVARIANTS
    UITypeOK
    ShownNodeIsSelected
    ResultsAreOfOneTarget
PROPERTIES
    CancelledNotRecorded
    CancelEnds
CONSTANTS
    MaxId = 2
    Direct = Direct
    NoTarget = NoTarget
    CentralSpeedtest = FALSE
    Calls = {c1, c2}
    Runs = {r1, r2}
    NoRun = NoRun
    MaxTests = 2
    MaxPending = 2
    MaxChanges = 1
CHECK_DEADLOCK FALSE
