SPECIFICATION Spec
CONSTANTS
  INIT_READ_BUF = 512
  Pieces = {1, 256, 512}
  MaxPending = 1024
PROPERTY ZeroMeansClosed
CHECK_DEADLOCK FALSE
