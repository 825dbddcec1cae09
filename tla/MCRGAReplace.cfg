SPECIFICATION Spec
CONSTANTS
  Replica = {1, 2}
  MaxWord = 15
  Physical = {0}
  MinRun = 2
  MaxNodes = 4
  MaxTombs = 2
  MaxPending = 2
  MaxPendingBytes = 4
  MaxInsert = 2
  MaxEdits = 3
  MaxEvents = 3
PROPERTY ReplaceInPlace
