CONSTANTS
  Slots = {main, a, b}
  NoTask = NoTask
  Main = main
  Status = {0, 1}
  MaxTid = 2
  EnableTest = TRUE
  Kills = FALSE
  Faults = TRUE
SPECIFICATION Spec
SYMMETRY Symmetry
INVARIANTS OneRunner
