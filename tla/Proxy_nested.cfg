SPECIFICATION Spec
CONSTANTS
  Keys = {k1}
  StreamIds = {s1, s2, s3}
  MAX_PER_SESSION = 2
  MAX_TOTAL = 2
  MAX_RETRIES = 1
  MaxNest = 2
INVARIANT SavedNextIsLive
CHECK_DEADLOCK FALSE
