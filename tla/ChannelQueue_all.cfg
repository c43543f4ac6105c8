CONSTANTS
  t1 = t1
  t2 = t2
  w1 = w1
  w2 = w2
  w3 = w3
  Nobody = Nobody
  Threads = {t1}
  Words = {w1, w2, w3}
  Home <- OneThread
  Bots = {"b1", "b2"}
  Steerers = {"s1"}
  Hangs = TRUE
  MaxOther = 1
  Deletable = {t1}
  MaxId = 2
  MaxOps = 2
  MaxCrashes = 1
SPECIFICATION Spec
INVARIANT TypeOK
INVARIANT ClaimedOnce
INVARIANT OneAtATime
INVARIANT PendingIsReachable
PROPERTY LedgerKept
CHECK_DEADLOCK FALSE
