\* One command at a time: two writers; a thread of four items in windows of two;
\* four terminals, one to a page and three pages; one discovery; eleven
\* bytes into a ring of four and a cap of five.
SPECIFICATION Spec
CONSTANTS
    Writers = {w1, w2}
    MaxItems = 4
    Limit = 2
    MaxTerminals = 4
    PageSize = 1
    MaxPages = 3
    RingSize = 4
    CapLimit = 5
    MaxWritten = 11
SYMMETRY WriterSymmetry
INVARIANTS
    GuardHolds
    WindowsTile
    InventoryIsComplete
    ProvenIsUsable
    OffersAreAllowed
    OutputIsKept
\* Each command comes to an end.
CHECK_DEADLOCK FALSE
