SPECIFICATION FairReplicationSpec
CONSTANTS
    Node = {n1, n2}
    Nil = Nil
    MaxTerm = 1
    MaxIndex = 2
    Starter = {n1, n2}
    Beater = {}
    Faulty = {}
PROPERTIES
    VotesLeadToLeader
    EveryWriteCommits
CHECK_DEADLOCK FALSE
