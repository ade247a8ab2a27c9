SPECIFICATION Spec
CONSTANTS
    i1 = i1
    i2 = i2
    o1 = o1
    o2 = o2
    a1 = a1
    None = None
    Ids = {i1, i2}
    Opens = {o1, o2}
    Archives = {a1}
    MaxEvents = 2
SYMMETRY NameSymmetry
INVARIANTS
    NotificationsAreKept
CHECK_DEADLOCK FALSE
