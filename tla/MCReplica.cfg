CONSTANTS
    Datum <- MCDatum
    MaxPosition = 2
    MaxProposal = 2
    Agreed <- MCAgreed
    Proposed <- MCProposed
    LateNotices = FALSE
SPECIFICATION Spec
INVARIANTS
    TypeOK
    RestartInvisible
PROPERTIES
    NothingForgotten
    PromisesKept
    ImplementsAcceptor
