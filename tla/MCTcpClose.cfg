SPECIFICATION FairSpec
CONSTANTS
  COTCP_SIZE = 2
  MaxFd = 2
  MaxSend = 1
  MaxEvents = 2
  MaxNest = 1
  Callbacks = {"error"}
  RoomToSpare = TRUE
INVARIANTS ConnectedIsEstablished ConnectingIsWatched
PROPERTY GracefulCloseEnds
