CONSTANTS
    ErrCap = 1
    MaxPieces = 3
    MaxUpsets = 1
    MaxSessions = 2
    ReopenMaxRetry = 2
    MaxLines = 2
    MaxExits = 2
    BaseDelay = 1
    MaxDelay = 3
SPECIFICATION FairSpec
INVARIANTS
    SentInOrder
    BookmarkExact
    OneShotOnce
    EndIsReported
PROPERTIES
    FollowCatchesUp
    StopEnds
\* A tailer that has ended, and a program that has run its last time, stop.
CHECK_DEADLOCK FALSE
