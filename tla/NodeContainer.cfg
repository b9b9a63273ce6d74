SPECIFICATION Spec
INVARIANTS
    TypeOK
    ScriptFindsTheAgent
    RowLeadsToAgent
CONSTANTS
    Ports = {8081, 9000, 9001}
    DefaultPort = 8081
    BadPort = 70000
    MaxKey = 3
    Blank = Blank
    NoKey = NoKey
    NoRow = NoRow
    MaxEdits = 4
CHECK_DEADLOCK FALSE
