SPECIFICATION Spec
CONSTANTS
    Procs = {p1, p2}
    Slugs = {a, b}
    Statuses = {draft, done}
    FirstStatus = draft
    MaxNumber = 3
    MaxCommands = 2
    MaxEdits = 1
    MaxKills = 1
CHECK_DEADLOCK FALSE
INVARIANTS
    NumbersDistinct
    
    
