CONSTANTS
    Lines = {l1, l2}
    Swap = Swap
    QueueCap = 2
    MaxEvents = 5
SPECIFICATION FairSpec
INVARIANTS
    TypeOK
    HandledInOrder
    SwapSplitsStream
    CloseDrains
PROPERTIES
    CallsReturn
    ImplementsStream
\* After Close the process exits.
CHECK_DEADLOCK FALSE
