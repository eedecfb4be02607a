SPECIFICATION SetSpec
CONSTANTS
  Data = {1, 2, 3}
  OtherSets = {{}, {1}}
CHECK_DEADLOCK FALSE
INVARIANT IntersectLeavesCommon
