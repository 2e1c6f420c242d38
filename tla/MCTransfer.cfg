SPECIFICATION FairSpecTransfer
CONSTANTS
    Stream = {s1, s2}
    None = None
    Endless = Endless
    Windows = {2, Endless}
    Graces = {1, 3}
    MaxClock = 4
    MaxMoved = 3
CHECK_DEADLOCK FALSE
INVARIANTS RampExcluded FigureForWholeWindow
PROPERTIES NothingAfterTheEnd PhaseEnds
