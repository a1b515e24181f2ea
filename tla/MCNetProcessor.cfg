CONSTANTS
    k1 = k1
    k2 = k2
    Keys <- MCKeys
    NoKey = NoKey
    Script <- MCScript
    MaxSegment = 2
    Limit = 2
    Timeout = 1
    CleanPeriod = 1
    ReuseGap = 3
    MaxThrows = 1
SPECIFICATION FairSpec
INVARIANTS
    LineOrTail
    AllHandedOn
    InOrderOnce
    MemoryBounded
PROPERTY
    SessionsLeave
