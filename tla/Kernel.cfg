SPECIFICATION RequestSpec
CONSTANTS
    MaxInt = 15
    FullConfidence = 10
    MaxClaims = 4
    KernelVersion = "0.1.0"
    Catalogue <- MCCatalogue
    Policies <- MCPolicies
CHECK_DEADLOCK FALSE
INVARIANTS
    OrderIndependent
    ScoreIsExplained
    SupportNeverLowers
