SPECIFICATION Spec
CONSTANTS
    k1 = k1
    k2 = k2
    w1 = w1
    w2 = w2
    None = None
    Runs = {}
    Compactions = {k1, k2}
    Waits = {w1, w2}
    InboxSize = 2
    OutSize = 1
    MaxTalk = 0
SYMMETRY WaitSymmetry
INVARIANTS
    WaitMatches
    WaitIsIdempotent
CHECK_DEADLOCK FALSE
