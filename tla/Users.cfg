SPECIFICATION Spec
CONSTANTS
  INT64_MIN <- IntMin
  INT64_MAX = 100
  CLOAK_REGISTRY_MAX_SESSIONS = 2
  CLOAK_USERPANEL_MAX_ACTIVE_USERS = 2
  Conns = {c1}
  MAX_PENDING_CONNS = 1
  Hellos <- UserHellos
  Bypass = {}
  Admin = "admin"
  Rows <- UserRows
  MaxUsed <- UserMaxUsed
  Perishable = {"dave"}
  MaxConns = 1
  Writes = {}
  Outcomes <- UserOutcomes
  Faults = {"compose"}
  CanCreate = FALSE
  Waiting <- UserWaiting
  Recorded = {"carol", "dave"}
INVARIANTS UsageConserved
PROPERTY LossesAreExcused
CHECK_DEADLOCK FALSE
