\* Two callers of Close, a child that writes at most once on each stream.
SPECIFICATION Spec
CONSTANTS
    x1 = x1
    x2 = x2
    Closers = {x1, x2}
    NoCloser = NoCloser
    MaxAttempts = 3
    MaxOutput = 1
INVARIANTS
    CloseIsABarrier
    EndIsHonest
PROPERTIES
    ChildIsReaped
CHECK_DEADLOCK FALSE
