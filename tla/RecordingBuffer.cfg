SPECIFICATION LiveSpec
CONSTANTS
  SIZE = 7
  RANGE = 2
  BACKWARD = 1
  FORWARD = 1
  MAX = 6
  PROBE = 2
  Chunks = {2}
  BLOCK = 3
  Estimates = {4, 5}
  Kinds = {"transport", "media"}
  Targets = {0, 6}
  MaxCalls = 1
  MaxPulls = 2
  MaxFailures = 1
INVARIANTS
  TypeOK
  WindowIsTrue
  ReaderIsServed
PROPERTIES
  NobodyWaitsForever
CHECK_DEADLOCK FALSE
