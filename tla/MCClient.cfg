SPECIFICATION Spec
CONSTANTS
    Attempt = {t1, t2, t3}
    None = None
    Settings <- MCSettings
SYMMETRY Symmetry
CONSTRAINT Claimed
CHECK_DEADLOCK FALSE
INVARIANTS OneTestIfSeen ClosesOwnRun ControlsMatch
