SPECIFICATION Spec
CONSTANTS
  TVR_BITS = 1
  TVN_BITS = 1
  Wheels = 2
  Interval = 1
  Delays = {0, 3, 7}
  Loops = {0, 1, 4}
  Steps = {1, 3}
  MaxTime = 12
  PerBlock = 1
  MaxBlocks = 2
INVARIANTS
  LinkedIsHeld
  HandlesUsable
PROPERTIES
  Periodic
  UpdateReturns
CHECK_DEADLOCK FALSE
