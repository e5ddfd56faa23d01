CONSTANTS
  BlockUnits = 2
  MaxReceived = 2
  MaxSeeks = 1
  MaxControls = 1
SPECIFICATION LiveSpec
CHECK_DEADLOCK FALSE
INVARIANTS
  FeedTypeOK
  ReaderIsInformed
PROPERTIES
  PlaysInOrder
  BothGoOn
