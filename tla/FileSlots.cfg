CONSTANTS
  Offsets = {a, b, c, d, e}
  NoSlot = none
SPECIFICATION FileSpec
INVARIANTS
  FileTypeOK
  SlotsHold
