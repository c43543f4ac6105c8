CONSTANTS
  ana = ana
  ben = ben
  cyd = cyd
  room = room
  Bots = {ana, ben, cyd}
  Threads = {ana}
  Rooms = {room}
  Owner <- OwnerOf
  Members <- BenAndCyd
  Slots = 1
  DepthLimit = 2
  RequestLimit = 3
  ExecutionLimit = 2
  HistoryLimit = 99
  HistoryKept = 99
  MaxNodes = 3
  MaxTurns = 1
  MaxRevoked = 1
  MaxRestarts = 1
SPECIFICATION FairSpec
INVARIANT TypeOK
INVARIANT ParentsStayOpen
INVARIANT ResultSaidOnce
INVARIANT ResumesInformed
PROPERTY SettledForGood
PROPERTY RunwayKept
PROPERTY ParentGoesOn
PROPERTY HardCapEnds
CHECK_DEADLOCK FALSE
