CONSTANTS
  ArrayServers = {mirakurun}
  SseServers = {mirakc}
  Services = {s1, s2}
  Listed = {s1}
  Nothing = Nothing
  Garbled = Garbled
  MaxPrograms = 1
  MaxServices = 1
  MaxChanges = 2
  MaxFaults = 1
  MaxConnects = 2
SPECIFICATION LiveSpec
CHECK_DEADLOCK FALSE
INVARIANTS
  TypeOK
  QuietIsCurrent
  OnlyThisVisit
PROPERTIES
  ResponsesNeverGoBack
  CatchesUp
