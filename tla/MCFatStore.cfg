SPECIFICATION Spec
CONSTANTS
    Names = {f, g}
    Clipped = {}
    Foreign = {}
    Last = 3
    RootSlots = 2
    DirSlots = 0
    Width = 2
    Values = {1, 2}
    MaxCount = 2
    Fds = {1}
    Sharing = FALSE
    KernelApi = FALSE
SYMMETRY Symmetry
INVARIANTS ReadsBack NamesUnique
PROPERTY StoresFiles
CHECK_DEADLOCK FALSE
