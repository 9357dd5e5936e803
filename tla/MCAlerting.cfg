CONSTANTS
    Names = {1, 2}
    Sources = {"app"}
    Lines <- MCLines
    Reporters = {"tailer", "stopper"}
    QueueCap = 1
    MaxRecent = 1
    MaxLines = 3
    MaxTime = 2
    Requests <- MCRequests
    InitialRows <- MCInitialRows
    MaxEdits = 2
    Statuses = {"healthy", "stopped"}
    MaxReports = 2
    MaxInputs = 4
SPECIFICATION Spec
INVARIANTS
    CooldownRespected
    BurstsExact
    BooksAgree
    
\* After Close the process exits.
CHECK_DEADLOCK FALSE
