SPECIFICATION FairSpec
CONSTANTS
    Top = 3
    Sweep = 3
    Shift = 8
    Land = 2
    RideFull = 5
    Settle = 1
INVARIANTS SeatFollowsDrive ThrowsAtRest
PROPERTIES ReadyToMeasure ComesToRest
