SPECIFICATION FairSpec
CONSTANTS
    a = a
    b = b
    c = c
    m = m
    Commit = {a, b, c, m}
    Parents <- MCParents
    CommittedAt <- MCCommittedAt
    watch = watch
    user = user
    Indexer = {watch, user}
    Watcher = watch
    None = None
    MaxCommits = 4
    ShallowCuts <- MCShallowCuts
    Disturb = {}
    MaxMoves = 2
    MaxAborts = 1
INVARIANT CursorCovered
INVARIANT SearchableBehindCursor
INVARIANT ShallowIsHonest
PROPERTY ImplementsCommitLog
PROPERTY EventServed
