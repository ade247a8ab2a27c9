\* One item in each of two turns, every content, two lines in flight.
SPECIFICATION Spec
CONSTANTS
    t1 = t1
    t2 = t2
    i1 = i1
    p1 = p1
    p2 = p2
    Turns = {t1, t2}
    Items = {i1}
    Proposals = {p1, p2}
    Shapes <- MCShapes
    Decisions <- MCDecisions
    MaxWire = 2
SYMMETRY NameSymmetry
INVARIANTS
    TypeOK
    NothingStaleIsAsked
    SoundIsAsked
CHECK_DEADLOCK FALSE
