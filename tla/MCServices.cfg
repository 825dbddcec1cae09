SPECIFICATION ServicesSpec
CONSTANTS
  p1 = p1
  p2 = p2
  g1 = g1
  g2 = g2
  MaxWord = 2
  Caller <- MCCaller
  Physical <- MCPhysical
  Remote <- MCRemote
SYMMETRY MCSymmetry
INVARIANTS
  TagsUnique
  AcceptedOnce
  Retraces
  Restorable
  AcknowledgedKept
  OneRecoveryBase
  SubscriberCurrent
  NoFalseSuccess
  StreamUnbroken
  NoUpdateMissed
  PresenceSettled
  AppendedOnce
  ReplayComplete
  MergesNeverDeadlock
  UpdatesComplete
PROPERTIES
  NowExceedsHistory
  DetectorSound
CHECK_DEADLOCK FALSE
