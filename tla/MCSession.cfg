\* The behaviour ends when the clock and the reports reach their bounds and
\* every stream has ended: a run nobody uses takes no step.
SPECIFICATION Spec
CONSTANTS
    Stream = {s1, s2}
    Grace = 1
    Drain = 1
    Lag = 1
    Amount = {1, 2}
    MaxTime = 4
    MaxReports = 5
SYMMETRY Symmetry
CHECK_DEADLOCK FALSE
INVARIANTS WindowSound TotalsSound MatchesHistory
