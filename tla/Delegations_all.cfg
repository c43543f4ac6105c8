CONSTANTS
  ana = ana
  ben = ben
  Bots = {ana, ben}
  Reviewed = {ana}
  Slots = 2
  MaxQueued = 2
  WakeLimit = 1
  MaxItems = 2
  MaxTurns = 2
  MaxBarred = 1
  MaxCrashes = 1
SPECIFICATION FairSpec
INVARIANT TypeOK
INVARIANT StartsOnce
INVARIANT WithinSlots
INVARIANT Known
PROPERTY OverIsOver
PROPERTY NothingWaits
CHECK_DEADLOCK FALSE
