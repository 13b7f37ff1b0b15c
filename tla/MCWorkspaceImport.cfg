\* An import with the label of a local profile.
CONSTANTS
  Procs = {p1}
  Labels = {"game", "current"}
  Snaps = {"s"}
  Runners = {"wine", "proton"}
  DefaultRunner = "wine"
  Absent = Absent
  Empty = Empty
  Budget = 8
SPECIFICATION CalmSpec
PROPERTY ImportKeepsLocal
CHECK_DEADLOCK FALSE
