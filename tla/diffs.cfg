SPECIFICATION Spec
CONSTANTS
    near = near
    far = far
    code = code
    doc = doc
    NoFile = NoFile
    Process = {cli}
    Repo = {near, far}
    Diff <- MCDiff
    Blank = {"_"}
    MaxBlock = 3
    Overlap = FALSE
    MaxFaults = 2
INVARIANT HitsHold
INVARIANT MapIsLog
