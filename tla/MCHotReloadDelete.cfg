CONSTANTS
    n1 = n1
    n2 = n2
    Names <- MCNames
    Configs <- MCConfigs
    InitRows <- MCInitRows
    Files <- MCFiles
    Faults = {"delete"}
    MaxEdits = 2
SPECIFICATION FairSpec
PROPERTY HotReloadWithoutRestart
CHECK_DEADLOCK FALSE
