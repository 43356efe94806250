SPECIFICATION QuerySpec
CONSTANTS
    Nothing = Nothing
    Blank = Blank
    Row <- Rows
    PathOf <- PathAt
    Repo <- RepoOf
    Session <- SessionOf
    Time <- TimeOf
    Snippet <- SnippetOf
    Full <- FullOf
    Words <- WordsOf
    Query = {"two", "phrase", "unclosed"}
    Plain = {"two"}
    Malformed = {"unclosed"}
    Narrow <- NarrowOf
    Wide <- WideOf
    Said <- SaidIn
    Scope <- ScopeOf
    Limits = {1, 9}
    MaxLimit = 2
    DefaultLimit = 2
    Cutoff = 2
    DeepScanDepth = 4
    BodyLimit = 3
    BodyBudget = 4
    SummaryLimit = 1
    Sample = 3
    MinLocalDocs = 2
    MaxTerms = 2
    Priced = {"find_code", "recent_commits"}
    MaxCommits = 1
    MaxFaults = 1
CHECK_DEADLOCK FALSE
INVARIANT NoHitLost
INVARIANT QuietAnswer
INVARIANT NothingHidden
INVARIANT AdviceIsFree
