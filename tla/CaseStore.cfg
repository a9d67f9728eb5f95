SPECIFICATION Spec
CONSTANTS
    MaxInt = 31
    FullConfidence = 20
    Tenants = {t1, t2}
    CaseIds = {k1, k2}
    ClaimSets <- MCClaimSets
    PolicyTable <- MCPolicyTable
    Corpora <- MCCorpora
    NoObject = NoObject
    KernelVersion = "0.1.0"
    MaxCloses = 3
    MaxSweeps = 2
SYMMETRY Symmetry
CHECK_DEADLOCK FALSE
INVARIANTS
    StoreHoldsTogether
    PinReplayMatches
    DriftNamesItsClaims
    SweptCasesAreSettled
