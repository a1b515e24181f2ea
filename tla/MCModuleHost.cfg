CONSTANTS
    INT_MAX = 127
    Texts = {"", "Line", "StrEdit", "a", "b", "o"}
    Schemes <- MCSchemes
    Edits <- MCEdits
    Lengths = {2}
    MaxData = 2
SPECIFICATION Spec
INVARIANTS
    RunsAsMeant
    NothingLost
    FormFollows
    CountersTrue
CHECK_DEADLOCK FALSE
