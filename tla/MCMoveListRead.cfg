SPECIFICATION Spec
CONSTANTS
  Replica = {1, 2}
  Kind = {"movelist"}
  Physical = {0}
  MaxEdits = 2
  MaxUndoEdits = 3
  MaxEvents = 1
  SeededOnce = {}
  SeededThrice = {}
  MaxWord = 30
  MinRun = 2
  MaxNodes = 4
  MaxTombs = 2
  MaxPending = 2
  MaxPendingBytes = 5
  MaxMarks = 6
  MaxDepth = 2
  MaxObjects = 4
  MaxRoots = 3
  MaxEntries = 3
  MaxRunes = 4
INVARIANT EveryReadReturns
