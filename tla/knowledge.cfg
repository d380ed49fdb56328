CONSTANTS
    Sources = {p1, p2}
    Texts = {"long", "short", "other"}
    DocOf <- MCDocOf
    SizeOf <- MCSizeOf
    Jobs = {j1, j2}
    MaxStarts = 4
    Documents <- MCDocuments
    MaxChars = 7
    Overlap = 1
    Chunks = {"a", "b", "c"}
    BuiltIn <- MCBuiltIn
    Hits <- MCHits
    Weight <- MCWeight
    TopK = 2
    Filters <- MCFilters
    Searches = {q1, q2}
    Queries = {"q1", "q2"}
    Ttls <- MCTtls
    Closeness <- MCCloseness
    MaxEntries = 2
    Reserve = 1
    MaxPuts = 4
    MaxTime = 1
    MaxHits = 1
SYMMETRY KnowledgeSymmetry
SPECIFICATION KnowledgeSpec
INVARIANTS ConfirmedIsStored DeletedIsGone SplitKeepsText LossNeedsFencedBar FusionPrefersAgreement SparseHasClient OwnAnswerNewest
CHECK_DEADLOCK FALSE
