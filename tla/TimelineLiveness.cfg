SPECIFICATION LiveSpec
CONSTANTS
  Sources = {"live"}
  MaxEnd = 2
  Reserve = 2
  Hysteresis = 1
  Recovery = 1
  Rates = {1, 2}
  Modes = {"on_pause", "always"}
  MaxRequests = 2
PROPERTIES
  RequestsSettle
CHECK_DEADLOCK FALSE
