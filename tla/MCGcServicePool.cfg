CONSTANTS
    Controllers = {c1}
    Cleaners = {w1}
    Net = Net
    Wired = TRUE
    NoThread = NoThread
SPECIFICATION Spec
INVARIANT NoPoolRace
