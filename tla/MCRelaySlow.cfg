SPECIFICATION FairSpec
CONSTANTS
  Peer = {p, q}
  Transport = {"grpc"}
  Change = {1, 2}
  MaxMessages = 2
  MaxBytes = 2
  MaxBatch = 2
  MaxFailures = 0
  MaxPublishes = 2
PROPERTY SlowStreamDisconnected
CHECK_DEADLOCK FALSE
