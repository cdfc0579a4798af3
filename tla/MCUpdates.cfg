CONSTANTS
    None = None
    N = 2
    MaxInFlight = 2
    Scenarios <- AnyFault
SPECIFICATION FairSpec
INVARIANTS
    DeliveredInOrder
    
    ForgottenIsDelivered
    NoUpdateCheckFails
PROPERTY TaskCompletes
CHECK_DEADLOCK FALSE
