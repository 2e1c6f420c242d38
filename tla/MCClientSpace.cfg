SPECIFICATION Spec
CONSTANTS
    Attempt = {t1, t2}
    None = None
    Settings = {{"store_enabled", "space"}}
CHECK_DEADLOCK FALSE
INVARIANTS OneTestAtATime
