SPECIFICATION MCSpec
CONSTANTS
    k1 = k1
    Reader = {r1}
    Principal = {p1}
    Id = {i1, i2}
    NoId = none
    Scope = {team, ops}
    Granting = {{team}, {ops}}
    Holding = {{}, {team}, {team, ops}}
    TTL = 1
    EndTime = 2
    Process = {b1}
    Key = {k1, k2}
    Interval = 2
    KeysTTL = 3
    KeysEnd = 5
SYMMETRY Symmetry
CHECK_DEADLOCK FALSE
INVARIANTS
    AnsweredWasReadable
    PublishedKeyKnown
