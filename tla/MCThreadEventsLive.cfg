SPECIFICATION Spec
CONSTANTS
    s1 = s1
    s2 = s2
    Subscribers = {s1, s2}
    NoSubscriber = NoSubscriber
    Buffer = 1
    MaxItems = 1
PROPERTIES
    StreamsEnd
