\* Two clients one after the other whose processes have the same id, as after
\* the restart of a container.
SPECIFICATION Spec
CONSTANTS
    c1 = c1
    c2 = c2
    c3 = c3
    Clients = {c1, c2}
    PidOf <- OnePid
    None = None
    MayOverlap = TRUE
INVARIANTS
    UserDataExists
CHECK_DEADLOCK FALSE
