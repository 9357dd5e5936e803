CONSTANTS
    s1 = s1
    s2 = s2
    Sources = {s1}
    MaxLines = 4
    Passing <- MCPassing
    KeyOf <- MCKeyOf
    LogCap = 1
    ErrCap = 1
    Modes = {TRUE}
    Window = 1
    OutputCap = 1
    MaxTime = 3
SPECIFICATION Spec
INVARIANT NotLostOnShutdown
\* After the bookmark is saved the process exits.
CHECK_DEADLOCK FALSE
