SPECIFICATION Spec
CONSTANTS
    Addr = {a1}
    Invalid = Invalid
    PerIP = 1
    Total = 1
    DefaultLimit = 1
    Lifetime = 0
    StoreEnabled = TRUE
    Run = {r1, r2}
    NoRun = NoRun
    Stream = {s1, s2}
    Closer = {c1, c2}
    Grace = 0
    Drain = 0
    Lag = 0
    Amount = {1}
    MaxSent = 1
    MaxTime = 2
    MaxRestarts = 1
SYMMETRY Symmetry
CHECK_DEADLOCK FALSE
INVARIANTS OneRowPerRun OwnTrafficOnly RowsAreFinal SlotWhileServed
PROPERTIES SweepSparesActive LedgerKept
