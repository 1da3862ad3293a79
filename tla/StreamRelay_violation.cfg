SPECIFICATION FairSpec
CONSTANTS
  Conns = {c1, c2}
  SendCap = 2
  DataCost = 2
  CloseCost = 1
  BufCap = 1
  Chunk = 2
  BucketCap = 1
  RoomCap = 1
  MaxIn = 1
  MaxStream = 1
  MaxOther = 0
PROPERTY ViolationEnds
CHECK_DEADLOCK FALSE
