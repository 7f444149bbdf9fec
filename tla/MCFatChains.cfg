SPECIFICATION Spec
CONSTANTS
    Names = {f, g}
    Clipped = {}
    Foreign = {}
    Last = 3
    RootSlots = 3
    DirSlots = 1
    Width = 2
    Values = {0}
    MaxCount = 3
    Fds = {1, 2}
    Sharing = FALSE
    KernelApi = TRUE
SYMMETRY Symmetry
INVARIANTS NoCrossLinks SizeFitsChain LostOnlyByFailure
CHECK_DEADLOCK FALSE
