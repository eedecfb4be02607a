SPECIFICATION MCSpec
CONSTANTS
  item1 = item1
  item2 = item2
  junk = junk
  Item = {item1, item2}
  Junk = junk
  INIT_SIZE = 2
  RingSize = {1, 2, 3}
  MaxSize = 7
  MaxData = 3
  Entry <- MCEntry
  Prio <- MCPrio
  MaxEntries = 6
  Key <- MCKey
  Val = {1, 2}
  Hash <- MCHash
  BucketSizes <- MCBucketSizes
  MaxNodes = 4
  Data <- MCDataSet
  OtherSets <- MCOtherSets
  Width <- MCWidth
  Words <- MCWords
  Files <- MCFiles
  WordSize = 6
  Texts <- MCTexts
  Masks = {3, 5}
  Elem = {item1, item2}
  Garbage = junk
  INIT_CAP = 2
  MaxItems = 4
CHECK_DEADLOCK FALSE
INVARIANTS RingOK HeapOrdered DictSound RedBlack KeepsSet FilterExact HoldsItems
PROPERTIES KeepsOrder PopsGreatest KeepsMap
