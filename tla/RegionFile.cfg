SPECIFICATION Spec
CONSTANTS
    c1 = c1
    c2 = c2
    Chunks = {c1, c2}
    Sizes = {1, 2, 3}
    SectorSize = 2
    MaxSaves = 2
    MaxFaults = 2
SYMMETRY Symmetry
INVARIANTS TablesValid LastSaveReadable CountMatches FreeSectorsAgree
PROPERTY OnlySpoiledCleared
CHECK_DEADLOCK FALSE
