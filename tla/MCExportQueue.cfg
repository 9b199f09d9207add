\* Two triggers, two commits, a removal between, two runs to a task, every failure.
SPECIFICATION Spec
CONSTANTS
    Triggers = {t1, t2}
    MaxRetry = 1
    Debounced = FALSE
    Retention = FALSE
    RedisFails = TRUE
    MaxRuns = 2
    StoreFails = TRUE
    MaxHead = 2
    MaxId = 2
SYMMETRY Symmetry
CHECK_DEADLOCK FALSE
INVARIANTS
    NoExportLost
    RerunCatchesUp
    StatusIsTrue
