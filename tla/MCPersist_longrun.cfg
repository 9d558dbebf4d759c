CONSTANTS
    South <- SouthRows
    North <- NorthRows
    Items <- ThreeItems
    PipeCap = 2
    Batch = 2
    OpenMayFail = FALSE
    SqlMayFail = FALSE
    MaxItems = 3
    MaxCrashes = 0
SPECIFICATION LongRunSpec
PROPERTY ValuesReachDatabase
