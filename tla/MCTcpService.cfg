SPECIFICATION Spec
CONSTANTS
  COTCP_SIZE = 2
  MaxFd = 3
  MaxSend = 1
  MaxEvents = 2
  MaxNest = 1
  Callbacks = {"connect", "recv", "close"}
  RoomToSpare = FALSE
INVARIANTS TypeOK PollMatchesSlots UnsentIsWatched ClosingHasData
PROPERTY LifeCycle
