\* Two peers for one slot, a piece that lies in two files and a short one.
CONSTANTS
  Handles = {a, b}
  MaxUnchoked = 1
  CursorSize = 5
  FileLengths <- MCFileLengths
  PieceLength = 2
  MaxServe = 2
  MaxCommands = 2
SPECIFICATION UploadSpec
INVARIANTS
  TypeOK
  ServedHoldSlots
  ServedBytesRight
PROPERTY TurnsComeRound
CHECK_DEADLOCK FALSE
