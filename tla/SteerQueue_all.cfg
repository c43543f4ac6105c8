CONSTANTS
  t1 = t1
  t2 = t2
  w1 = w1
  w2 = w2
  w3 = w3
  w4 = w4
  Threads = {t1, t2}
  Words = {w1, w2, w3}
  Opened = {w3}
  Steerers = {"s1"}
  LiveEngine = TRUE
  HasRooms = TRUE
  Deletable = {t1, t2}
  Capacity = 1
  MaxId = 2
  MaxCrashes = 1
  Settings = {FALSE, TRUE}
  MaxHandoffs = 1
  Resumable = {}
  Delegating = {t1}
  Home <- TwoThreads
SPECIFICATION Spec
INVARIANT IInv
INVARIANT ClaimedOnce
INVARIANT NeverInTwoPlaces
INVARIANT PendingIsReachable
INVARIANT QueueInOrder
PROPERTY LedgerKept
CHECK_DEADLOCK FALSE
