\* Run by hand: InvalidIsDenied is what the doc says and the code
\* does not keep (README, section 7).
SPECIFICATION Spec
CONSTANTS
    t1 = t1
    t2 = t2
    i1 = i1
    p1 = p1
    p2 = p2
    Turns = {t1, t2}
    Items = {i1}
    Proposals = {p1, p2}
    Shapes <- MCShapes
    Decisions <- MCDecisions
    MaxWire = 2

INVARIANTS
    InvalidIsDenied

CHECK_DEADLOCK FALSE
