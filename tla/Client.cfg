SPECIFICATION Spec
CONSTANTS
    SlotIds = {s1, s2}
    CtxIds = {c1, c2}
    SessionKeys = {k1, k2}
INVARIANTS
    NothingStrays
    NothingIsForgotten
    IdsAreFresh
    ReplyIsConsumed
PROPERTY BringUpEnds
CHECK_DEADLOCK FALSE
