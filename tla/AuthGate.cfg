SPECIFICATION Spec
INVARIANTS
    TypeOK
    RolesSeparate
    AdminTokenIsEnough
    TokensInTheFileWork
CONSTANTS
    Texts <- MCTexts
    Strong <- MCStrong
    NodeKey = "node-key"
    Nothing = ""
    Unset = Unset
    Stopped = Stopped
    None = None
    Presented <- MCPresented
    InitialFile <- MCInitialFile
    MaxEdits = 2
    EnvChoices <- MCEnvChoices
    FileChoices <- MCFileChoices
CHECK_DEADLOCK FALSE
