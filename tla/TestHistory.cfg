SPECIFICATION HistorySpec
INVARIANT HistoryTypeOK
PROPERTY RecordsAreKept
CONSTANTS
    Tabs = {1, 2}
    MaxRecords = 3
    MaxCompleted = 6
