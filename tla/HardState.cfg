SPECIFICATION Spec
CONSTANTS
    Byte = {1, 2}
    MaxName = 2
    MaxTerm = 3
INVARIANTS
    ConfirmedVoteSurvives
    ConfirmedStateIsReadBack
CHECK_DEADLOCK FALSE
