SPECIFICATION Spec
CONSTANTS
    Server = {a, b}
    MaxCalls = 3
    Key <- MCKey
    Overlap = FALSE
    MaxFaults = 2
INVARIANT CountedOnce
INVARIANT Reconciled
INVARIANT SinkIsLog
