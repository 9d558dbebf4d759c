CONSTANTS
    South <- SouthRows
    North <- NorthRows
    Items <- ThreeItems
    PipeCap = 3
    Batch = 2
    OpenMayFail = TRUE
    SqlMayFail = TRUE
    MaxItems = 4
    MaxCrashes = 1
SPECIFICATION FairSpec
INVARIANTS
    TypeOK
    DatabaseIsPrefixOfLog
    NothingLostAtShutdown
    StoredValuesWereWritten
    SqliteOneThreadAtATime
    SecondCloseSparesThread
PROPERTY Terminates
CHECK_DEADLOCK FALSE
