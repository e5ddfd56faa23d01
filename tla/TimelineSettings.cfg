SPECIFICATION Spec
CONSTANTS
  Sources = {"live"}
  MaxEnd = 2
  Reserve = 1
  Hysteresis = 1
  Recovery = 1
  Rates = {1, 2}
  Modes = {"on_pause", "always"}
  MaxRequests = 1
INVARIANT SettingsKeepStart
CHECK_DEADLOCK FALSE
