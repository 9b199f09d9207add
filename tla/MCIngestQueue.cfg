\* Three concurrent triggers, a push between, retries and a cancelled run, under the
\* scheduling the server guarantees.
SPECIFICATION FairSpec
CONSTANTS
    Triggers = {t1, t2, t3}
    MaxRetry = 1
    Debounced = TRUE
    Retention = FALSE
    RedisFails = FALSE
    MaxHead = 2
    MaxRequeues = 1
CHECK_DEADLOCK FALSE
INVARIANTS
    NoTriggerLost
PROPERTIES
    Fresh
    EveryTriggerAnswered
