SPECIFICATION Spec
CONSTANTS
    Record = {a, b}
    Torn = Torn
    inital_offset = 0
    max_index_bytes = 28
    max_store = 8
    MayCrash = FALSE
    MayTruncate = FALSE
    MaxOffset = 4
    MaxLost = 1
SYMMETRY RecordSymmetry
INVARIANT
    ActiveHasRoom
CHECK_DEADLOCK FALSE
