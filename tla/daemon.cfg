SPECIFICATION FairSpec
CONSTANTS
    Path = {p1, p2}
    None = None
    Heartbeat = 1
    Window = 4
    Busy = 1
    Drain = 1
    Join = 2
    MaxDispatch = 1
    MaxQueue = 1
INVARIANT AliveReported
INVARIANT ReportIsRecent
INVARIANT NothingForgotten
INVARIANT JoinedInTime
PROPERTY ChangeRead
PROPERTY ShutdownEnds
