CONSTANTS
    Providers <- MCProviders
    Contexts <- MCContexts
    LlmCalls = {c1, c2}
    FailureThreshold = 2
    RecoveryTimeout = 1
    Sessions = {s1}
    Tasks = {"report", "planning"}
    Askers = {a1, a2}
    SessionBudget = 4
    TaskPerCall <- MCTaskPerCall
    TaskPerSession <- MCTaskPerSession
    AllowDowngrade = {"report"}
    MaxTokens = 2
    ToolNames = {"ops_clear_cache", "query_metrics", "hdfs_restart", "node_update"}
    Builtin <- MCBuiltin
    PrefixOf <- MCPrefixOf
    WordsOf <- MCWordsOf
    UserIds = {"agent", "ann"}
    DefaultUsers <- MCDefaultUsers
    Configs <- MCConfigs
SPECIFICATION ServicesSpec
INVARIANTS ClosedBelowThreshold ReasoningStaysStrong OverspendBounded ShownIsCallable
PROPERTY OpenCircuitProbes
