SPECIFICATION MCSpec
CONSTANTS
  MaxPayload = 3
  RecvCap = 2
  MaxPending = 2
  PadLens = {1, 3}
  Repeats = TRUE
  MaxBytes = 5
  DgramPayload = 5
  QueueCap = 6
  Prefix = 2
  Sizes = {1, 3, 5}
  ReadCaps = {1, 3}
  MaxDgrams = 3
INVARIANTS NoWedge DgramConservation
PROPERTIES FirstCopyLostOnlyToCap CloseReachesReader ImplementsByteStream
CHECK_DEADLOCK FALSE
