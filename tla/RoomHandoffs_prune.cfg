CONSTANTS
  ana = ana
  ben = ben
  cyd = cyd
  room = room
  Bots = {ana, ben, cyd}
  Threads = {ana, ben, cyd}
  Rooms = {}
  Owner <- OwnerOf
  Members <- MembersOf
  Slots = 1
  DepthLimit = 2
  RequestLimit = 3
  ExecutionLimit = 3
  HistoryLimit = 3
  HistoryKept = 1
  MaxNodes = 4
  MaxTurns = 2
  MaxRevoked = 0
  MaxRestarts = 0
SPECIFICATION Spec
SYMMETRY Alike
PROPERTY ActiveKept
CHECK_DEADLOCK FALSE
