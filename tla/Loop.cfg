SPECIFICATION LoopSpec
CONSTANTS
  Ids = {1, 2, 3}
  MaxObjs = 3
  MaxDepth = 4
  OwnerOpens = TRUE
  PeerIds = {2}
INVARIANTS MemorySafe Accounting
PROPERTY EventsAreServed
CHECK_DEADLOCK FALSE
