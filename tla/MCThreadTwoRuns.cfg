SPECIFICATION Spec
CONSTANTS
    r1 = r1
    r2 = r2
    None = None
    Runs = {r1, r2}
    Compactions = {}
    Waits = {}
    InboxSize = 4
    OutSize = 4
    MaxTalk = 0
SYMMETRY CallSymmetry
INVARIANTS
    StreamCanInterrupt
    RunFailsWithItsTurn
CHECK_DEADLOCK FALSE
