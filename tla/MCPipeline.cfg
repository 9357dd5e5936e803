CONSTANTS
    s1 = s1
    s2 = s2
    Sources = {s1, s2}
    MaxLines = 2
    Passing <- MCPassing
    KeyOf <- MCKeyOf
    LogCap = 2
    ErrCap = 1
    Modes = {TRUE, FALSE}
    Window = 1
    OutputCap = 1
    MaxTime = 2
SPECIFICATION FairSpec
INVARIANTS
    TypeOK
    SentAccounted
    SourceOrder
    DrainedInTime
PROPERTY SignalEnds
\* After the bookmark is saved the process exits.
CHECK_DEADLOCK FALSE
