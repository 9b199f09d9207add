\* Two exports and the startup check, one retry of a 429, three changes of the
\* site's behaviour, one restart.
SPECIFICATION ClientFairSpec
CONSTANTS
    Exporter = {e1, e2}
    Startup = startup
    MaxRetries = 1
    MaxWeather = 2
    MaxRestarts = 1
CHECK_DEADLOCK FALSE
INVARIANT
    AppliedOnce
PROPERTY
    EveryCallReturns
