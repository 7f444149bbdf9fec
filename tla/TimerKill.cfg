CONSTANTS
  Runnable = {t1, t2, t3}
  Slice = 2
  Clients = {a}
  Period = 3
  Global = FALSE
  Registered = a
  Late = FALSE
  Kills = TRUE
  NoClient = none
  MaxTicks = 6
SPECIFICATION TimerSpec
INVARIANTS NoTickLost
CHECK_DEADLOCK FALSE
