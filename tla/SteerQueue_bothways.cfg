CONSTANTS
  t1 = t1
  t2 = t2
  w1 = w1
  w2 = w2
  w3 = w3
  w4 = w4
  Threads = {t1}
  Words = {w1, w2, w3}
  Opened = {}
  Steerers = {"s1"}
  LiveEngine = TRUE
  HasRooms = FALSE
  Deletable = {}
  Capacity = 1
  MaxId = 3
  MaxCrashes = 0
  Settings = {FALSE}
  MaxHandoffs = 0
  Resumable = {t1}
  Delegating = {t1}
  Home <- OneThread
SPECIFICATION Spec
INVARIANT NotBothWays
CHECK_DEADLOCK FALSE
