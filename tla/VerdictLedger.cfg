SPECIFICATION Spec
CONSTANTS
    None = None
    MaxInt = 524287
    FullConfidence = 10000
    Tenants <- MCTenants
    TenantCases <- MCTenantCases
    Vocabulary <- MCVocabulary
    RawClaims <- MCRawClaims
    ClaimId <- MCClaimId
    CompletedAt <- MCCompletedAt
    Opened = {"c2", "c5"}
    MaxRestarts = 1
    MaxRuns = 2
INVARIANTS
    SealIsEarned
    AlarmsAreReal
    LedgerHoldsTogether
    DriftIsExplained
CHECK_DEADLOCK FALSE
