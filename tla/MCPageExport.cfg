\* Two documents, the title of one of which may pass to the other.
SPECIFICATION Spec
CONSTANTS
    a = a
    b = b
    x = x
    y = y
    Keys <- TwoDocuments
    Versions <- Shared
    Distinct = TRUE
    Human = Human
    Nothing = Nothing
    Modes = {"cli", "force", "server"}
    MaxRuns = 3
    MaxPushes = 2
    MaxActs = 1
CHECK_DEADLOCK FALSE
INVARIANT
    CleanRunMirrors
PROPERTIES
    NoSilentOverwrite
    NeverTakesOver
    SecondRunQuiet
