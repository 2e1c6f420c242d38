SPECIFICATION Spec
CONSTANTS
    Every = 2
    SessionEvery = 2
    Capacity = 6
    MinSpan = 1
    DefaultSpan = 2
    MaxSpan = 4
    MaxTime = 5
    MaxTests = 2
    MaxGestures = 1
CHECK_DEADLOCK FALSE
INVARIANTS PictureIsCurrent LatestIsShown LegsApart
PROPERTY ClockMovesOn
