CONSTANTS
  d1 = d1
  Routines <- OneRoutine
  Kinds <- AnyKind
  Deliveries = {d1}
  Slots = 2
  MaxRuns = 2
  MaxHandouts = 1
  MaxOthers = 1
  MaxCrashes = 1
SPECIFICATION FairSpec
INVARIANT TypeOK
INVARIANT NoOrphanTurn
INVARIANT DeliveryOnce
PROPERTY ScheduledInTurn
PROPERTY OnlyForward
PROPERTY EveryRunEnds
CHECK_DEADLOCK FALSE
