CONSTANTS
  Slots = {main, a, b}
  NoTask = NoTask
  Main = main
  Status = {0, 1}
  MaxTid = 4
  EnableTest = FALSE
  Kills = TRUE
  Faults = TRUE
SPECIFICATION Spec
SYMMETRY Symmetry
INVARIANTS RingIntact LiveParents NoStuckWaiter ReportsKept
PROPERTIES NoSilentReap
