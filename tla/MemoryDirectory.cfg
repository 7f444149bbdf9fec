SPECIFICATION Spec
CONSTANTS
    Tasks = {t1, t2, t3}
    Init1 = t1
    Frames = 20
    HeapPages = 2
    PerTable = 2
    KernelTables = {k1}
    MaxActive = 3
    MaxDirs = 3
INVARIANT OwnDirectory
CHECK_DEADLOCK FALSE
