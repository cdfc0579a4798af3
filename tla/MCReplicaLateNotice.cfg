CONSTANTS
    Datum <- MCDatum
    MaxPosition = 2
    MaxProposal = 1
    Agreed <- MCAgreed
    Proposed <- MCProposed
    LateNotices = TRUE
SPECIFICATION Spec
INVARIANT
    RestartKeepsBegin
