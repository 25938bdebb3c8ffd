SPECIFICATION Spec
CONSTANTS
    Record = {a, b}
    Torn = Torn
    inital_offset = 0
    max_index_bytes = 24
    max_store = 3
    MayCrash = TRUE
    MayTruncate = FALSE
    MaxOffset = 3
    MaxLost = 1
SYMMETRY RecordSymmetry
INVARIANT
    PaddingIsNoEntry
CHECK_DEADLOCK FALSE
