SPECIFICATION FairSpec
CONSTANTS
    Size = 2
    MaxWrites = 3
    MayFail = TRUE
INVARIANTS
    StopKeepsSave
PROPERTIES
    ImplementsSaveFile
    SaveReachesDisk
CHECK_DEADLOCK FALSE
