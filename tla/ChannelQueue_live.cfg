CONSTANTS
  t1 = t1
  t2 = t2
  w1 = w1
  w2 = w2
  w3 = w3
  Nobody = Nobody
  Threads = {t1, t2}
  Words = {w1, w2, w3}
  Home <- TwoThreads
  Bots = {"b1"}
  Steerers = {}
  Hangs = FALSE
  MaxOther = 1
  Deletable = {t2}
  MaxId = 2
  MaxOps = 2
  MaxCrashes = 1
SPECIFICATION FairSpec
INVARIANT IdleRoomHasNoQueue
PROPERTY NobodyOvertakes
PROPERTY WordsGetTheirTurn
CHECK_DEADLOCK FALSE
