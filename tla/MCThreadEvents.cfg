\* Two interchangeable subscribers of buffer 1 over a source of three items.
SPECIFICATION Spec
CONSTANTS
    s1 = s1
    s2 = s2
    Subscribers = {s1, s2}
    NoSubscriber = NoSubscriber
    Buffer = 1
    MaxItems = 3
SYMMETRY SubscriberSymmetry
INVARIANTS
    ReservedSlotFree
    ShutdownIsSilent
PROPERTIES
    DeadSourceRefuses
    ImplementsStreams
