SPECIFICATION Spec
CONSTANTS
  Replica = {1, 2}
  Kind = {"list", "movelist", "tree", "document", "richtext", "undo"}
  Physical = {0}
  MaxEdits = 2
  MaxUndoEdits = 3
  MaxEvents = 1
  SeededOnce = {"list", "richtext", "document"}
  SeededThrice = {"movelist"}
  MaxWord = 30
  MinRun = 2
  MaxNodes = 4
  MaxTombs = 2
  MaxPending = 2
  MaxPendingBytes = 5
  MaxMarks = 6
  MaxDepth = 2
  MaxObjects = 4
  MaxRoots = 3
  MaxEntries = 3
  MaxRunes = 4
INVARIANTS Resolved NeverTakenForCorrupt EditTakesEffect UndoTakesBack
