SPECIFICATION Spec
CONSTANTS
    r1 = r1
    None = None
    Runs = {r1}
    Compactions = {}
    Waits = {}
    InboxSize = 2
    OutSize = 2
    MaxTalk = 3
PROPERTIES
    DropsOnlyWhenStalled
CHECK_DEADLOCK FALSE
