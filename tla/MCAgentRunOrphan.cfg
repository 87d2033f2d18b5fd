\* The model fails in a resumed run, and nobody crashes.
SPECIFICATION Spec
CONSTANTS
    None = None
    Runs = {r1}
    Calls = {c1}
    Workers = {w1}
    Configured = {w1}
    MaxAttempts = 2
    MayCrash = FALSE
INVARIANT NoOrphanRun
CHECK_DEADLOCK FALSE
