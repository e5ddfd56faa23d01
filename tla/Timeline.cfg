SPECIFICATION Spec
CONSTANTS
  Sources = {"live", "recording"}
  MaxEnd = 2
  Reserve = 1
  Hysteresis = 1
  Recovery = 1
  Rates = {1, 2}
  Modes = {"on_pause", "always"}
  MaxRequests = 3
INVARIANTS
  TypeOK
  RequestsHold
PROPERTIES
  HistoryReleasedLive
CHECK_DEADLOCK FALSE
