SPECIFICATION Spec
CONSTANTS
    Frames <- AllFrames
    Axes <- SomeAxes
    Outages <- OneCall
    LongestName = 2
    Queries <- Nobody
INVARIANTS
    PosesInAxes
    GlobalsCompose
    RotationFormsAgree
    SamplesInPeriod
    PlateAgrees
    NamedIsFound
    WalkFindsAll
