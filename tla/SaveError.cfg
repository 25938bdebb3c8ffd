SPECIFICATION SpecWithSaveErrors
CONSTANTS
    Node = {n1, n2}
    Nil = Nil
    MaxTerm = 1
    MaxIndex = 0
    Starter = {n1}
    Beater = {n1}
    Faulty = {n2}
INVARIANT
    VoteIsDurable
CHECK_DEADLOCK FALSE
