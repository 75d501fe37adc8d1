CONSTANTS
    Positions <- Grid
    Distance <- GridDistance
    Sources <- GridSources
    SourceLevels <- GridLevels
    MaxLevel = 2
SPECIFICATION LiveSpec
INVARIANTS LevelsExact QueueCovers
PROPERTIES ChangesExact RunEnds
