CONSTANTS
  Policies <- MCPolicies
  ReadUnits = 2
  SegmentUnits = 3
  ForwardUnits = 7
  MarginUnits = 2
  IndexGap = 2
  MaxEnd = 10
  MaxReconnects = 1
  MaxChanges = 2
SPECIFICATION Spec
CHECK_DEADLOCK FALSE
INVARIANTS
  TypeOK
  StoreHolds
PROPERTIES
  WindowIsKept
