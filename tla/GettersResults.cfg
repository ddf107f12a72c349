SPECIFICATION Spec
CONSTANTS
    Frames <- FewFrames
    Axes <- SomeAxes
    Outages <- OneCall
    LongestName = 2
    Queries <- Nobody
INVARIANTS
    ResultsExpected
