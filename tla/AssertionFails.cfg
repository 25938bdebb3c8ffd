SPECIFICATION ElectedSpec
CONSTANTS
    Node = {n1, n2, n3}
    Nil = Nil
    MaxTerm = 2
    MaxIndex = 2
    Starter = {}
    Beater = {n1}
    Faulty = {}
    Chief = n1
    Ally = n2
    Rival = n3
    MaxBeats = 2
    MaxAnswers = 0
INVARIANT FollowersAreNotAhead
CHECK_DEADLOCK FALSE
