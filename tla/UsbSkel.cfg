CONSTANTS
    c1 = c1
    c2 = c2
    u1 = u1
    u2 = u2
    u3 = u3
    None = None
    Conns = {c1, c2}
    Users = {u1, u2, u3}
    MaxUrbs = 2
SPECIFICATION Spec
INVARIANTS
    TypeOK
    RefsCounted
    NoUseAfterFree
    PmBalanced
    NoIoWhenGone
PROPERTY
    UnbindEnds
CHECK_DEADLOCK TRUE
