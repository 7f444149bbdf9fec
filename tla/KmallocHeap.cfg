SPECIFICATION Spec
CONSTANTS
  Requests = {8, 20, 40}
  Aligns = {16, 32}
  Start = 64
  InitialSize = 64
  PageSize = 64
  Frames = 1
  Word = 4096
  ReallocAligned = FALSE
INVARIANTS Tiled NoFreeNeighbours HeldOnce AreasFit
PROPERTY AreasStay
