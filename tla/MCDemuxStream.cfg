SPECIFICATION Spec
CONSTANTS
    c1 = c1
    Calls = {c1}
    NoCall = NoCall
    LineKinds = {"notification", "request", "malformed", "unclassifiable", "blank", "unreadable"}
    QueueCap = 1
    MaxParseErrors = 2
    MaxId = 1
    MaxLines = 4
INVARIANTS
    FaithfulStream
    EndIsExplained
