SPECIFICATION LiveSpec
CONSTANTS
  None = None
  A = A
  B = B
  Servers = {A, B}
  Preferences <- MCPreferences
  Encodes = {A}
  Starts <- MCStarts
  MaxId = 2
  MaxSwitches = 2
  MaxCommands = 1
  MaxEvents = 1
INVARIANTS
  TypeOK
  ShownIsOurs
  SessionsAgree
PROPERTIES
  WritesAreChecked
  ListComesBack
CHECK_DEADLOCK FALSE
