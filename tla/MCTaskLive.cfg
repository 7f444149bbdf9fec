CONSTANTS
  Slots = {main, a, b}
  NoTask = NoTask
  Main = main
  Status = {0}
  MaxTid = 2
  EnableTest = FALSE
  Kills = FALSE
  Faults = FALSE
SPECIFICATION SliceSpec
PROPERTIES ReadyRuns WaiterReturns OrphansFreed
