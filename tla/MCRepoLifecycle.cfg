\* One installation, three events, each delivered up to twice, everything fails.
SPECIFICATION Spec
CONSTANTS
    Dirs = {docs, handbook}
    NoManifest = none
    Manifest = manifest
    MaxCommits = 2
    MaxEvents = 3
    MaxAttempts = 2
    MaxInst = 1
    Unreliable = TRUE
SYMMETRY Symmetry
CHECK_DEADLOCK FALSE
INVARIANTS
    HandledOnce
    UninstallIsFinal
    LiveRowIndexed
    SettlesAtHead
