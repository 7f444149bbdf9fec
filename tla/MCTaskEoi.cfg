CONSTANTS
  Slots = {main, a, b}
  NoTask = NoTask
  Main = main
  Status = {0}
  MaxTid = 2
  EnableTest = FALSE
  Kills = TRUE
  Faults = FALSE
SPECIFICATION Spec
SYMMETRY Symmetry
INVARIANTS EoiSent
