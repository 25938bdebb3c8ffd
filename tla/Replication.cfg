SPECIFICATION ElectedSpec
CONSTANTS
    Node = {n1, n2, n3}
    Nil = Nil
    MaxTerm = 2
    MaxIndex = 2
    Starter = {}
    Beater = {n1}
    Faulty = {n2, n3}
    Chief = n1
    Ally = n2
    Rival = n3
    MaxBeats = 2
    MaxAnswers = 1
CONSTRAINT Scope
INVARIANTS
    CommittedIsOnMajority
    MatchIndexIsTrue
    FirstLeaderAssertsHold
PROPERTIES
    ImplementsCommittedLog
CHECK_DEADLOCK FALSE
