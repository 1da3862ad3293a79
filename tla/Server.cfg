SPECIFICATION Spec
CONSTANTS
  INT64_MIN <- IntMin
  INT64_MAX = 100
  CLOAK_REGISTRY_MAX_SESSIONS = 2
  CLOAK_USERPANEL_MAX_ACTIVE_USERS = 2
  Conns = {c1, c2}
  MAX_PENDING_CONNS = 2
  Hellos <- FrontHellos
  Bypass = {}
  Admin = "admin"
  Rows <- FrontRows
  MaxUsed <- FrontMaxUsed
  Perishable = {"alice"}
  MaxConns = 2
  Writes <- FrontWrites
  Outcomes <- FrontOutcomes
  Faults = {"db", "user", "prepare", "init", "compose", "timer"}
  CanCreate = TRUE
  Waiting = {}
  Recorded = {}
INVARIANTS OwnersMatch ValvesAreLive NoOrphanSession
CHECK_DEADLOCK FALSE
