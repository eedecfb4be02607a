SPECIFICATION FairSpec
CONSTANTS
  COUDP_SIZE = 1
  COFD_SIZE = 1
  MaxFd = 2
  UserFd = {1}
  b1 = b1
  b2 = b2
  Buffer = {b1, b2}
  MaxSend = 1
  MaxEvents = 2
  MaxNest = 1
  Callbacks = {"recv", "error"}
  UserData = {0}
INVARIANTS PollMatchesObjects OpenMatchesUdp SendListSound UnsentIsWatched ClosingHasData
PROPERTIES InOrder GracefulCloseEnds
