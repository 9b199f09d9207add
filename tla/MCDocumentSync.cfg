SPECIFICATION Spec
CONSTANTS
    id1 = id1
    id2 = id2
    v1 = v1
    v2 = v2
    other = other
    Places = {1, 2}
    DocIDs = {id1, id2}
    Contents = {v1, v2, other}
    IdOf <- MCIdOf
    Nothing = nothing
INVARIANTS
    RowsServeHead
    IndexFollowsRows
    RetryIsIdempotent
