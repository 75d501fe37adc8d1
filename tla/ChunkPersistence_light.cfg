SPECIFICATION Spec
CONSTANTS
    Chunks = {c1}
    s1 = s1
    s2 = s2
    t1 = t1
    t2 = t2
    Sections = {s1, s2}
    SaveTasks = {t1, t2}
    MaxVersion = 3
    MaxReleases = 2
INVARIANT NoLostLight
CHECK_DEADLOCK FALSE
