SPECIFICATION Spec
CONSTANTS
  None = None
  p1 = p1
  p2 = p2
  long = long
  short = short
  Processes = {p1, p2}
  RangeOf <- MCRangeOf
  Demands <- MCDemands
  UNITS = 2
  MAX_REQUEST = 2
  SPACING = 1
  WINDOW = 2
  PER_WINDOW = 1
  FIRST_RETRY = 1
  LATER_RETRY = 1
  TARGET_FAILURES = 2
  RETRY_AFTER = 2
  ROLLBACK = 1
  MaxEvents = 2
INVARIANTS
  TypeOK
  CoverageIsHonest
  RequestsAreSparing
PROPERTIES
  PinnedIsKept
CHECK_DEADLOCK FALSE
