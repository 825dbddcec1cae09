SPECIFICATION LiveSpec
CONSTANTS
  a1 = a1
  a2 = a2
  none = none
  NoActor = none
  Actor <- MCActor
  Payload <- MCPayload
  Offer <- MCOffer
  Size <- MCSize
  MaxPending = 2
  MaxBytes = 3
INVARIANT InboxConsistent
PROPERTIES
  BufferedNotLost
  RefinesInOrderDelivery
  EventuallyInstalled
