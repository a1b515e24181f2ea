CONSTANTS
    Groups <- MCGroups
    Sentences <- MCSentences
    BodyXor <- MCBodyXor
    Timeout = 0
    Raw <- MCRaw
    LineEnd = "end"
    Text <- MCText
    Kind <- MCKind
    NoType = "none"
    Datagrams <- MCDatagrams
    MaxChunk = 3
    MaxStarts = 2
SPECIFICATION Spec
INVARIANTS
    LinesCut
    Accounting
    SentAsChosen
    SettingsKept
CHECK_DEADLOCK FALSE
