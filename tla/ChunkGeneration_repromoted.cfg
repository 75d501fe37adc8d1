CONSTANTS
    Positions <- FourInARow
    Sources <- TwoSources
    Top = 1
    Accumulated <- TwoStatuses
    Direct <- TwoDirect
    Tasks <- FourTasks
    Stored = {}
    Limits <- RepromotedLimits
SPECIFICATION Spec
INVARIANT RestMeansFull
CHECK_DEADLOCK FALSE
