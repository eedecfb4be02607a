SPECIFICATION Spec
CONSTANTS
  COTCP_SIZE = 2
  MaxFd = 3
  MaxSend = 1
  MaxEvents = 2
  MaxNest = 1
  Callbacks = {"recv", "close"}
  RoomToSpare = FALSE
INVARIANT ConnectedIsEstablished
