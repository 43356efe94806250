SPECIFICATION Spec
CONSTANTS
    w1 = w1
    w2 = w2
    File = {top, deep}
    Container = container
    Nested = nested
    NestedFile = {deep}
    Content <- MCContent
    Binary = Binary
    Absent = Absent
    NoDoc = NoDoc
    None = None
    Process = {watcher, cli}
    Watcher = watcher
    Disturb = {"absorb"}
    MaxEdits = 2
    MaxAborts = 1
INVARIANT Whole
INVARIANT VerifiedIsLive
INVARIANT Mirror
PROPERTY NestedKept
