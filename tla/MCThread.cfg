\* Two runs, which may be cancelled, or two compactions and two Waits with one
\* other notification, over a small inbox.
SPECIFICATION OneKindSpec
CONSTANTS
    r1 = r1
    r2 = r2
    k1 = k1
    k2 = k2
    w1 = w1
    w2 = w2
    None = None
    Runs = {r1, r2}
    Compactions = {k1, k2}
    Waits = {w1, w2}
    InboxSize = 2
    OutSize = 1
    MaxTalk = 1
INVARIANTS
    EndsWithItsTurn
    GapsAreDrops
    NoSendOnClosed
    NotificationIsKept
PROPERTIES
    WaitingEnds
CHECK_DEADLOCK FALSE
