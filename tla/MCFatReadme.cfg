SPECIFICATION Spec
CONSTANTS
    Names = {f, g}
    Clipped = {}
    Foreign = {}
    Last = 3
    RootSlots = 3
    DirSlots = 1
    Width = 2
    Values = {0}
    MaxCount = 2
    Fds = {1, 2}
    Sharing = FALSE
    KernelApi = TRUE

INVARIANT NamesUnique
CHECK_DEADLOCK FALSE
