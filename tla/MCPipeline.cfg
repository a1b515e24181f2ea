CONSTANTS
    rmc = rmc
    part1 = part1
    part2 = part2
    Items <- MCItems
    Junk = Junk
    Capacity = 4
    Laps = 2
    Script <- MCScript
    MaxPush = 9
SPECIFICATION PFairSpec
INVARIANTS
    RaceFree
    IndexTestsExact
    ProcessedInOrder
PROPERTIES
    Refinement
    Processed
    EndsOrFull
CHECK_DEADLOCK FALSE
