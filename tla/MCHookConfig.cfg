\* Three clients in processes of their own; sessions overlap, Connects do not.
SPECIFICATION Spec
CONSTANTS
    c1 = c1
    c2 = c2
    c3 = c3
    Clients = {c1, c2, c3}
    PidOf <- ThreePids
    None = None
    MayOverlap = FALSE
INVARIANTS
    UserDataExists
    OneAtATime
    RestoredByClose
CHECK_DEADLOCK FALSE
