SPECIFICATION Spec
CONSTANTS
    x1 = x1
    x2 = x2
    Closers = {x1, x2}
    NoCloser = NoCloser
    MaxAttempts = 3
    MaxOutput = 2
SYMMETRY CloserSymmetry
INVARIANTS
    StderrIsComplete
    LadderSendsTerm
CHECK_DEADLOCK FALSE
