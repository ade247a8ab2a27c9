SPECIFICATION HookedSpec
CONSTANTS
    k1 = k1
    x1 = x1
    f1 = f1
    Connecters = {k1}
    Closers = {x1}
    Fires = {f1}
    Nobody = Nobody
INVARIANTS
    CloseHearsCallbacks
    CloseWaitsForCallbacks
