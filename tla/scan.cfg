SPECIFICATION Spec
CONSTANTS
    Unassigned = Unassigned
    NoPath = NoPath
    Up = Up
    Dot = Dot
    Empty = Empty
    A = A
    B = B
    a = a
    b = b
    p = p
    n = n
    m = m
    lib = lib
    s = s
    f = f
    g = g
    Domain = {A, B}
    Config <- MCConfigs
    Repo <- MCRepo
    Dir <- MCDir
    Item <- MCItems
    Dump <- MCDump
    Object = {t, u}
    Bad = Bad
    Gone = Gone
    MaxEdits = 2
    MaxScans = 2
INVARIANT NoForeign
INVARIANT SchemaCurrent
CHECK_DEADLOCK FALSE
