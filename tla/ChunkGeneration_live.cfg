CONSTANTS
    Positions <- FourInARow
    Sources <- TwoSources
    Top = 1
    Accumulated <- TwoStatuses
    Direct <- TwoDirect
    Tasks <- FourTasks
    Stored = {0}
    Limits <- LiveLimits
SPECIFICATION LiveSpec
PROPERTIES EventuallyFull EventuallyQuiet
CHECK_DEADLOCK FALSE
