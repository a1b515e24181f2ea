CONSTANTS
    Controllers = {c1, c2}
    Cleaners = {w1, w2}
    Net = Net
    Wired = FALSE
    NoThread = NoThread
SPECIFICATION FairSpec
INVARIANTS
    OneCleaner
    NoLostWakeup
PROPERTIES
    ShutdownHolds
    StopReturnsUnlessOvertaken
    CleansOn
