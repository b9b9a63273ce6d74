SPECIFICATION FairSpec
INVARIANTS
    TypeOK
    LimitsHold
    AcceptedInFull
    CompleteDownloadIsWhole
    SaneSettingsNeverPanic
PROPERTIES
    HandlersEnd
CONSTANTS
    MaxInt64 = 4
    Limits <- MCLimits
    Defaults <- MCDefaults
    Chunks = {0, 2}
    Counts <- MCCounts
    Room = 2
    Asked <- MCAsked
    Sizes = {0, 2, 3}
    Routes = {"node", "centre", "proxy","test"}
    NodeDefault = 3
    Absent = Absent
    Garbage = Garbage
    Chunked = Chunked
    NoBytes = NoBytes
CHECK_DEADLOCK FALSE
