SPECIFICATION Spec
CONSTANTS
    Record = {a, b}
    Torn = Torn
    inital_offset = 0
    max_index_bytes = 24
    max_store = 3
    MayCrash = TRUE
    MayTruncate = TRUE
    MaxOffset = 3
    MaxLost = 2
SYMMETRY RecordSymmetry
INVARIANTS
    TypeOK
    SegmentsAreContiguous
    
PROPERTIES
    ImplementsAppendLog
    StoredRecordsStay
    RotationIsInTime
CHECK_DEADLOCK FALSE
