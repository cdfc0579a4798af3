SPECIFICATION Spec
CHECK_DEADLOCK FALSE
CONSTANTS
    Nobody = Nobody
    r1 = r1
    r2 = r2
    r3 = r3
    Replicas <- MCReplicas
    Datum <- MCReplicas
    Data <- MCData
    Quorum = 2
    Environments <- Overtaken
    MaxPosition = 1
    MaxProposal = 5
    StaleWrites = TRUE
    WriterContract = TRUE
SYMMETRY Symmetry
INVARIANTS
    SubsequentWritesAgree
