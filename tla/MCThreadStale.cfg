SPECIFICATION Spec
CONSTANTS
    r1 = r1
    None = None
    Runs = {r1}
    Compactions = {}
    Waits = {}
    InboxSize = 4
    OutSize = 4
    MaxTalk = 0
INVARIANTS
    QuietMeansNoActiveTurn
CHECK_DEADLOCK FALSE
