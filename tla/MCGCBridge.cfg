SPECIFICATION BridgeSpec
CONSTANTS
  Member = {m1, m2}
  Tag = {t1}
  Caller = {bridge1}
  Bridge = bridge1
  MaxEpoch = 3
  MaxViews = 4
  MaxInc = 2
  MaxSeq = 2
  MaxReceipts = 2
INVARIANT CountsExact
PROPERTIES CompactOnlyAcknowledged CollectedUnderFence RefinesCoordinator
