SPECIFICATION Spec
CONSTANTS
    Frames <- SomeFrames
    Offsets <- SomeOffsets
    Outages <- LostAt
    Predictions = {0, 1}
    TimeLimit = 2
    SetBacks = 1
    Losses = 1
    LongestName = 2
INVARIANTS NamesServed RetimingInv
PROPERTIES EvenlyMoved
