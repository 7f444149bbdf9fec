CONSTANTS
  N = 2
  Readers = {1}
  Waiting = {}
  Chars = {a, nl}
  NewLine = nl
  Size = 3
SPECIFICATION KeyboardFairSpec
PROPERTIES ReadersAreServed
CHECK_DEADLOCK FALSE
