SPECIFICATION Spec
CONSTANTS
    Names = {f, g}
    Clipped = {}
    Foreign = {f}
    Last = 3
    RootSlots = 3
    DirSlots = 1
    Width = 2
    Values = {0}
    MaxCount = 2
    Fds = {1, 2}
    Sharing = FALSE
    KernelApi = FALSE

INVARIANT NamesKept
CHECK_DEADLOCK FALSE
