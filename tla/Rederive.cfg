SPECIFICATION FairSpec
CONSTANTS
    MaxInt = 31
    FullConfidence = 20
    Proposable <- MCProposable
    KnownPredicates = {"AUTH_FAILED_BURST", "CONNECTED_TO_INDICATOR"}
    PinnedEvidence = {"e1", "e2"}
    WindowStart = 1
    WindowEnd = 4
    NoHypothesis = NoHypothesis
    Budgets <- MCBudgets
    ClaimsPerTurn = 2
    CallsPerTurn = 3
    OriginalClaimSets <- MCOriginalClaimSets
    CasePolicy <- MCCasePolicy
    CaseVersion = "0.1.0"
CHECK_DEADLOCK FALSE
INVARIANTS
    ResultIsHonest
    EmptyDiffSameDisposition
PROPERTIES
    InvestigationEnds
