SPECIFICATION FairSpec
CONSTANTS
  usr1 = usr1
  usr2 = usr2
  kill = kill
  Sigs = {usr1, usr2, kill}
  Unblockable = {kill}
  Quiet = {}
  Actions <- TheActions
  Masks <- TheMasks
  MaxQueue = 3
  MaxNested = 3
  MaxSent = 3
  N = 3
  Readers = {1, 2}
  Waiting = {3}
  Size = 4
  Chars = {a, nl}
  NewLine = nl
  Repeats = 1
  InFlight = 0
  Runnable = {1, 2, 3}
  Slice = 2
  Clients = {c, d}
  Period = 3
  Global = FALSE
  Registered = c
  Late = TRUE
  Kills = TRUE
  NoClient = none
  MaxTicks = 5
INVARIANTS TicksCountedOnce QueueKept NoReentry
PROPERTIES KeysInOrder LettersMatchShift AloneIsServed
CHECK_DEADLOCK FALSE
