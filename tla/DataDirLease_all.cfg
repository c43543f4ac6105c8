CONSTANTS
  p1 = p1
  p2 = p2
  p3 = p3
  Pids = {p1, p2, p3}
  SeesReuse = FALSE
  MaxGenerations = 3
  MaxTokens = 3
  MaxBoots = 1
SPECIFICATION FairSpec
INVARIANT OneHolder
PROPERTY Recovers
CHECK_DEADLOCK FALSE
