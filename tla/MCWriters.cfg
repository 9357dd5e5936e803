CONSTANTS
    MaxWrites = 2
    Items = {1, 2}
    MaxTime = 2
    Parts = {1}
    DefaultBatchSize = 1
    MaxBatchSize = 3
    Lines <- MCLines
    Configs <- MCConfigs
    OldSizes = {1}
SPECIFICATION FairWriters
INVARIANTS
    FileKeepsLines
    FileBounded
    PostedAtMostOnce
PROPERTIES
    CloseEnds
    BufferedGoesOut
\* A closed output stays closed.
CHECK_DEADLOCK FALSE
