CONSTANTS
  t1 = t1
  t2 = t2
  w1 = w1
  w2 = w2
  w3 = w3
  w4 = w4
  Threads = {t1}
  Words = {w1}
  Opened = {w1}
  Steerers = {}
  LiveEngine = FALSE
  HasRooms = TRUE
  Deletable = {}
  Capacity = 1
  MaxId = 1
  MaxCrashes = 0
  Settings = {FALSE}
  MaxHandoffs = 0
  Resumable = {t1}
  Delegating = {t1}
  Home <- OneThread
SPECIFICATION FairSpec
PROPERTY WordsGetTheirTurn
CHECK_DEADLOCK FALSE
