SPECIFICATION AllSpec
CONSTANTS
    Tasks = {t1, t2, t3}
    Init1 = t1
    Frames = 20
    HeapPages = 2
    PerTable = 2
    KernelTables = {k1}
    MaxActive = 3
    MaxDirs = 3
    CacheTasks = {t, u}
    Sectors = {1, 2}
    Data = {a, b}
    Preemptible = FALSE
    ReadFails = FALSE
    WriteFails = TRUE
    Volumes <- MCVolumes
    LinkValues = {0, 3, 1638, 26214}
    Disks <- MCDisks
INVARIANTS Isolated KernelShared HeapMapped CopiesAgree HoldsLatest Persists FormatSound
PROPERTIES EntriesIndependent FormattingEnds
CHECK_DEADLOCK FALSE
