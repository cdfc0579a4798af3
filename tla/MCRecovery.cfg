SPECIFICATION Spec
CHECK_DEADLOCK FALSE
CONSTANTS
    r1 = r1
    r2 = r2
    r3 = r3
    Replicas <- MCReplicas
    Quorum = 2
    AutoInitialize = TRUE
    MaxInterrupts = 1
    MaxWipes = 1
INVARIANT
    TypeOK
    NoVoteAfterLoss
PROPERTY
    AllVote
