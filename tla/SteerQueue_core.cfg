CONSTANTS
  t1 = t1
  t2 = t2
  w1 = w1
  w2 = w2
  w3 = w3
  w4 = w4
  Threads = {t1, t2}
  Words = {w1, w2, w3}
  Opened = {}
  Steerers = {}
  LiveEngine = FALSE
  HasRooms = FALSE
  Deletable = {}
  Capacity = 1
  MaxId = 3
  MaxCrashes = 2
  Settings = {TRUE}
  MaxHandoffs = 1
  Resumable = {t1}
  Delegating = {t1}
  Home <- TwoThreads
SPECIFICATION FairSpec
INVARIANT SaidOnce
INVARIANT WithinCapacity
PROPERTY LineIsServed
PROPERTY WordsGetTheirTurn
CHECK_DEADLOCK FALSE
