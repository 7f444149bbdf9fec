CONSTANTS
  Slots = {main, a, b}
  NoTask = NoTask
  Main = main
  Status = {0}
  MaxTid = 3
  EnableTest = FALSE
  Kills = FALSE
  Faults = FALSE
SPECIFICATION Spec
SYMMETRY Symmetry
INVARIANTS ZombiesReparented
