SPECIFICATION Spec
CONSTANTS
    Addrs = {a, b}
    Anon = "anon"
    StreamIds = {x, y}
    Nil = "nil"
    PeerCaps = {2}
    READ_BUDGET = 2
    MAX_REFUSED = 2
    PEER_TIMEOUT = 2
    SendCap = 1
    RoomCap = 1
    WriteFailsNested = TRUE
    MaxIn = 2
    MaxDown = 1
INVARIANT ReleasedOnce
CHECK_DEADLOCK FALSE
