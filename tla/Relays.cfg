SPECIFICATION MCSpec
CONSTANTS
  Conns = {c1, c2}
  SendCap = 4
  DataCost = 2
  CloseCost = 1
  BufCap = 1
  Chunk = 2
  BucketCap = 1
  RoomCap = 1
  MaxIn = 2
  MaxStream = 2
  MaxSent = 3
  MaxOther = 1
INVARIANTS DataFits NoRelayStalls
PROPERTIES EndsFlushed AllMoves
CHECK_DEADLOCK FALSE
