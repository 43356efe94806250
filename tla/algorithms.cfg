SPECIFICATION Spec
CONSTANT None = None
CHECK_DEADLOCK FALSE
INVARIANT ThreadLaw
INVARIANT ReadingLaw
INVARIANT TriageLaw
INVARIANT SavingsLaw
