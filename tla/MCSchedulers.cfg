SPECIFICATION MCSpec
CONSTANTS
  DEFAULT_COROUTINE = 2
  MaxCap = 4
  n1 = n1
  n2 = n2
  Node = {n1, n2}
  TVR_BITS = 1
  TVN_BITS = 1
  Wheels = 4
  Interval = 2
  Delays = {0, 1, 2, 3, 7, 12, 17, 31}
  Steps = {1, 5}
  MaxTime = 90
SYMMETRY Symmetry
INVARIANTS
  TypeOK
  ResumeChain
  OneRunning
  ContextsMatch
  NewFindsSlot
  NoDrift
PROPERTIES
  Nesting
  Punctual
CHECK_DEADLOCK FALSE
