\* A rollback to a snapshot taken before any profile was active.
CONSTANTS
  Procs = {p1}
  Labels = {"game", "current"}
  Snaps = {"s"}
  Runners = {"wine", "proton"}
  DefaultRunner = "wine"
  Absent = Absent
  Empty = Empty
  Budget = 8
SPECIFICATION CalmSpec
INVARIANT RollbackRestores
CHECK_DEADLOCK FALSE
