SPECIFICATION Spec
CONSTANTS
    claude = claude
    claude2 = claude2
    doc1 = doc1
    doc2 = doc2
    mem1 = mem1
    mem2 = mem2
    k1 = k1
    k2 = k2
    k3 = k3
    old = old
    new = new
    File = {doc1, doc2}
    Kind <- MCKind
    Texts <- MCTexts
    Watcher = watcher
    Scanner = scanner
    Absent = Absent
    None = None
    Disturb = {}
    MaxScans = 1
    MaxEdits = 2
    MaxAborts = 1
SYMMETRY Symmetry
INVARIANT Mirror
CHECK_DEADLOCK FALSE
