CONSTANTS
    Controllers = {c1, c2}
    Cleaners = {w1}
    Net = Net
    Wired = FALSE
    NoThread = NoThread
SPECIFICATION FairSpec
PROPERTY StopReturns
