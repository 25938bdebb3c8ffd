SPECIFICATION ElectedSpec
CONSTANTS
    Node = {n1, n2, n3}
    Nil = Nil
    MaxTerm = 3
    MaxIndex = 2
    Starter = {n3}
    Beater = {}
    Faulty = {}
    Chief = n1
    Ally = n2
    Rival = n3
    MaxBeats = 2
    MaxAnswers = 0
CONSTRAINT OldLeaderReturns
INVARIANT ElectionSafety
CHECK_DEADLOCK FALSE
