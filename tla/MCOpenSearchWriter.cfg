CONSTANTS
    MaxDocs = 4
    BulkSize = 2
    MaxPending = 2
    MaxRetries = 2
SPECIFICATION FairSpec
INVARIANTS
    NoSilentLoss
    HeldOnce
PROPERTY CloseReturns
\* A closed writer does nothing more.
CHECK_DEADLOCK FALSE
