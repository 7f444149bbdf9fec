SPECIFICATION CacheSpec
CONSTANTS
    CacheTasks = {t, u}
    Sectors = {1, 2}
    Data = {a, b}
    Preemptible = FALSE
    ReadFails = TRUE
    WriteFails = FALSE
INVARIANT HoldsLatest
CHECK_DEADLOCK FALSE
