CONSTANTS
  Runnable = {t1, t2, t3}
  Slice = 2
  Clients = {a}
  Period = 3
  Global = FALSE
  Registered = none
  Late = TRUE
  Kills = FALSE
  NoClient = none
  MaxTicks = 4
SPECIFICATION TimerSpec
INVARIANTS SchedulerKeepsTrigger
CHECK_DEADLOCK FALSE
