SPECIFICATION HookSpec
CONSTANTS
    ws = ws
    proj = proj
    other = other
    one = one
    two = two
    NoDb = NoDb
    NoFile = NoFile
    Firing = {one, two}
    Above <- MCAbove
    Repository = {ws, proj, other}
    Db <- MCDb
    Ranked <- MCRanked
    Table = {"t"}
    Event <- MCEvent
    Env <- MCEnv
    Contents <- MCContents
    Admits <- MCAdmits
    MaxHits = 1
    OverFetch = 2
    MaxPasses = 1
    MaxKills = 1
    MaxFailures = 1
SYMMETRY Symmetry
CHECK_DEADLOCK FALSE
INVARIANT AnswerIsTheirs
INVARIANT HitsFound
INVARIANT EveryFiringTold
