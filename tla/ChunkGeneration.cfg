CONSTANTS
    Positions <- FourInARow
    Sources <- TwoSources
    Top = 2
    Accumulated <- ThreeStatuses
    Direct <- ThreeDirect
    Tasks <- FiveTasks
    Stored = {0}
    Limits <- SafetyLimits
SPECIFICATION Spec
INVARIANTS Bookkeeping NoPanic DependenciesPublished
CHECK_DEADLOCK FALSE
