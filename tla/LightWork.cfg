SPECIFICATION LiveSpec
CONSTANTS
    Positions <- Line4
    Distance <- LineDistance
    Radius = 1
    Savers = {"s1", "s2"}
    Workers = {"w1"}
    Game = "game"
    NoPos = NoPos
    MaxChanges = 2
    Limits <- MixedLimits
INVARIANTS Coherent NothingForgotten
PROPERTIES WindowsKept SectionsInOrder ShutdownFlushes WorkReturns
