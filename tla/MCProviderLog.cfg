SPECIFICATION ServicesSpec
CONSTANTS
  p1 = p1
  p2 = p2
  g1 = g1
  g2 = g2
  MaxWord = 2
  Caller <- MCCaller
  Physical <- MCPhysical
  Remote <- MCRemote
SYMMETRY MCSymmetry
INVARIANT OverWindowUnavailable
CHECK_DEADLOCK FALSE
