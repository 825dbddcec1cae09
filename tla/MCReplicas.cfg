SPECIFICATION AllSpec
CONSTANTS
  x = x
  y = y
  v = v
  w = w
  live = live
  del = del
  Element = {x, y}
  Value = {v, w}
  Present = live
  Deleted = del
  Replica <- MCReplica
  Kind <- MCKind
  Options <- MCOptions
  Number <- MCNumber
  Physical <- MCPhysical
  MaxWrites <- MCMaxWrites
  MaxWord = 1
  MaxCount = 2
SYMMETRY MCSymmetry
INVARIANTS AllResolved AllUnique TextConsistent DeltaSinceSuffices
PROPERTIES ReadYourWrites InsertAdjacent
