CONSTANTS
  t1 = t1
  t2 = t2
  w1 = w1
  w2 = w2
  w3 = w3
  Nobody = Nobody
  Threads = {t1}
  Words = {w1, w2, w3}
  Home <- OneThread
  Bots = {"b1"}
  Steerers = {}
  Hangs = TRUE
  MaxOther = 0
  Deletable = {}
  MaxId = 2
  MaxOps = 2
  MaxCrashes = 0
SPECIFICATION Spec
INVARIANT IdleRoomHasNoQueue
CHECK_DEADLOCK FALSE
