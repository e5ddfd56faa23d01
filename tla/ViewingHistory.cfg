CONSTANTS
  r1 = r1
  r2 = r2
  c1 = c1
  c2 = c2
  Recordings <- AllRecordings
  Unsavable <- OneUnsavable
  Services <- AllServices
  None = None
  Absent = Absent
  Broken = Broken
  Last = 2
  WatchedFrom = 2
  MaxRecordings = 1
  MaxRecent = 1
  MaxFavorites = 1
  MaxEdits = 2
  MaxDeaths = 1
  MaxFaults = 1
SYMMETRY ServiceSymmetry
SPECIFICATION Spec
INVARIANTS
  TypeOK
  SilenceMeansSaved
PROPERTIES
  FileMovesForward
  KeysNameOne
  ProgressIsKept
