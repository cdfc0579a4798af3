CONSTANTS
    None = None
    Scenarios <- AllScenarios
    MaxAgentAge = 1
    MaxAgentCount = 1
    MaxClock = 2
    MaxInFlight = 2
    MaxLate = 1
    MaxCalls = 3
SPECIFICATION Spec
INVARIANT MemoryMatchesRegistry
INVARIANT OneListPerAgent
INVARIANT RegistrarOwnsRegistry
INVARIANT DeactivatedGetsNoOffers
INVARIANT DrainingIsRemembered
INVARIANT DrainingNeedsCapability
 
 
CHECK_DEADLOCK FALSE
