SPECIFICATION AllSpec
CONSTANTS
    Tasks = {t1, t2}
    MaxFiles = 4
    Objects = {o1, o2, o3, o4, o5, o6}
    Closed = {0, 3}
    Vnodes = {readme}
    MaxSize = 1
    Space = 11
    MaxRequest = 3
    Word = 24
    Mnt = mnt  Bin = bin  Dev = dev  d1 = d1  d2 = d2
    Disks <- TheDisks
    Devices = {d1, d2}
    Paths <- ThePaths
    MaxCalls = 3
    RootsZeroed = TRUE
PROPERTY ForkInherits
CHECK_DEADLOCK FALSE
