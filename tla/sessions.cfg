SPECIFICATION Spec
CONSTANTS
    s1 = s1
    s2 = s2
    own = own
    other = other
    scratch = scratch
    foreign = foreign
    Transcript = {1, 2}
    Session = {s1, s2}
    Path = {own, other, scratch, foreign}
    Script <- MCScript
    Workspace = {own, other}
    Visible = {own}
    Neutral = {scratch}
    Withheld = Withheld
    None = None
    Touched <- MCTouched
    Disturb = {"merge"}
    MaxCommits = 1
INVARIANT NoLeak
INVARIANT Complete
PROPERTY Additive
