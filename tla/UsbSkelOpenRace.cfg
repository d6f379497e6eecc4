CONSTANTS
    c1 = c1
    c2 = c2
    u1 = u1
    u2 = u2
    u3 = u3
    None = None
    Conns = {c1, c2}
    Users = {u1, u2}
    MaxUrbs = 1
SPECIFICATION Spec
INVARIANT
    OpenSeesInterface
CHECK_DEADLOCK TRUE
