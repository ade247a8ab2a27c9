SPECIFICATION HookedSpec
CONSTANTS
    k1 = k1
    k2 = k2
    x1 = x1
    x2 = x2
    f1 = f1
    Connecters = {k1, k2}
    Closers = {x1, x2}
    Fires = {f1}
    Nobody = Nobody
INVARIANTS
    NothingLeft
    ConnectedIsTrue
    HookVerdicts
    HandlerRests
PROPERTIES
    EveryCallEnds
