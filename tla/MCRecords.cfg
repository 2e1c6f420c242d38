SPECIFICATION Spec
CONSTANTS
    Public = {11, 20}
    Local = {0}
    Invalid = 0
    Hosts = 10
    Request = {r1, r2}
    None = None
    Enabled = TRUE
    CacheTTL = 1
    Timeout = 1
    Delay = 0
    MaxEntries = 1
    Id = {i1}
    MaxRun = 0
    Retention = 1
    Period = 1
    Down = {2}
    MaxRestarts = 1
    MaxTime = 3
SYMMETRY Symmetry
CHECK_DEADLOCK FALSE
INVARIANTS CacheBounded AnswersFresh MineIsMine RetentionKept LinksResolve
