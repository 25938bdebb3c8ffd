SPECIFICATION Spec
CONSTANTS
    Node = {n1, n2, n3}
    Nil = Nil
    MaxTerm = 2
    MaxIndex = 1
    Starter = {n1, n2}
    Beater = {n1, n2}
    Faulty = {n1, n2, n3}
SYMMETRY StarterSymmetry
CONSTRAINT Scope
INVARIANTS
    TypeOK
    ElectionSafety
    OneVotePerTerm
    VoteIsDurable
    LeaderCoversItsVoters
    LeaderHintWasElected
PROPERTY
    DurableVoteIsStable
CHECK_DEADLOCK FALSE
