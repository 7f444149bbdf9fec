SPECIFICATION Spec
CONSTANTS
    Names = {f, g}
    Clipped = {}
    Foreign = {}
    Last = 3
    RootSlots = 3
    DirSlots = 1
    Width = 2
    Values = {0}
    MaxCount = 2
    Fds = {1, 2}
    Sharing = TRUE
    KernelApi = FALSE

PROPERTY WriteNeverShrinks
CHECK_DEADLOCK FALSE
