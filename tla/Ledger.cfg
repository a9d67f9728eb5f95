SPECIFICATION Spec
CONSTANTS
    Workers = {w1, w2}
    Mappings <- MCMappings
    Corpora <- MCCorpora
    Blank = Blank
    Malformed = Malformed
    Signer = "tenant key"
    MaxReplays = 2
    MaxRedactions = 1
    MaxBatches = 3
    MaxEpochs = 2
SYMMETRY Symmetry
CHECK_DEADLOCK FALSE
INVARIANTS
    GetIsHonest
    ReplaysAgree
    ProofsAreExact
    ChainBreaksShow
