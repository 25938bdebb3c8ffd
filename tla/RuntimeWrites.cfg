SPECIFICATION FairSpec
CONSTANTS
    Client = {c1, c2, c3}
    Large = {c3}
    Zeros = Zeros
    Peers = {p1}
    Capacity = 1
    IoErrors = TRUE
    FsmErrors = TRUE
    MayCrash = TRUE
INVARIANTS
    TypeOK
    OperationIsPresent
    NoOperationLeaks
    AppliedAfterPredecessors
PROPERTIES
    OkMeansApplied
    EveryWriteIsAnswered
CHECK_DEADLOCK FALSE
