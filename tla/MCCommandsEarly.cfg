\* Exposes: a write of a hooks key that begins while Connect runs may be applied
\* (README section 7).
SPECIFICATION Spec
CONSTANTS
    Writers = {w1}
    MaxItems = 0
    Limit = 0
    MaxTerminals = 0
    PageSize = 1
    MaxPages = 1
    RingSize = 1
    CapLimit = 1
    MaxWritten = 0
INVARIANT GuardHoldsAlways
CHECK_DEADLOCK FALSE
