SPECIFICATION ElectedSpec
CONSTANTS
    Node = {n1, n2, n3}
    Nil = Nil
    MaxTerm = 2
    MaxIndex = 1
    Starter = {}
    Beater = {}
    Faulty = {}
    Chief = n1
    Ally = n2
    Rival = n3
    MaxBeats = 2
    MaxAnswers = 0
INVARIANT CommittedIsOnMajority
CHECK_DEADLOCK FALSE
