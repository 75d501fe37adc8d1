SPECIFICATION LiveSpec
CONSTANTS
    Chunks = {c1}
    s1 = s1
    s2 = s2
    t1 = t1
    t2 = t2
    Sections = {s1, s2}
    SaveTasks = {t1, t2}
    MaxVersion = 2
    MaxReleases = 2
INVARIANTS IInv NoLostUpdate NoTornSnapshot
PROPERTIES StorageMovesForward UnloadingResolves
CHECK_DEADLOCK FALSE
