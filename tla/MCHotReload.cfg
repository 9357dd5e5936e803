CONSTANTS
    n1 = n1
    n2 = n2
    Names <- MCNames
    Configs <- MCConfigs
    InitRows <- MCInitRows
    Files <- MCFiles
    Faults = {"delete", "loadFail", "early", "import"}
    MaxEdits = 2
SPECIFICATION FairSpec
INVARIANTS
    TypeOK
    OneManagedTailer
    ImportedCreatable
PROPERTIES
    
    ShutdownEndsTailers
\* After shutdown nothing is left to do.
CHECK_DEADLOCK FALSE
