\* Two documents, two runs one after the other (the first may crash), a round
\* limit of one, two rounds, one edit of each file.
SPECIFICATION ReviewSpec
CONSTANTS
    s1 = s1
    s2 = s2
    Doc = {d1, d2}
    Server = {v1, v2}
    Submission = {s1, s2}
    OutcomeOf <- OutcomeDef
    MaxRounds = 1
    LastRound = 2
    LastBytes = 1
    Stalls = FALSE
    None = none
SYMMETRY Symmetry
CHECK_DEADLOCK FALSE
INVARIANTS
    ReplyMeansRecord
    OneServer
    

    
