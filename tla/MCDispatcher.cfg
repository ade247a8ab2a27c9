\* "initialize" and either two more Sends, or one of them, of a caller or of a
\* callback, with enough lines to fill the channel and hold up the loop.
SPECIFICATION OneConcernSpec
CONSTANTS
    hello = hello
    c1 = c1
    c2 = c2
    Calls = {hello, c1, c2}
    Hello = hello
    Other = c2
    NoCall = NoCall
    LineKinds = {"notification", "request"}
    QueueCap = 1
    MaxParseErrors = 2
    MaxId = 3
    MaxLines = 5
INVARIANTS
    TypeOK
    OwnAnswer
    AnswerNeverBlocks
    AnswerNotLost
    PendingIsLive
    CloseIsFinal
PROPERTIES
    WaitsEnd
