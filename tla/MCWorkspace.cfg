\* Two processes: every interleaving of three calls, or four that do not
\* overlap, each killed after any of its steps.
CONSTANTS
  Procs = {p1, p2}
  Labels = {"game", "current"}
  Snaps = {"s"}
  Runners = {"wine", "proton"}
  DefaultRunner = "wine"
  Absent = Absent
  Empty = Empty
  Budget = 8
SYMMETRY ProcSymmetry
SPECIFICATION Spec
INVARIANTS
  TypeOK
  CurrentListed
  CrashCostsOneFile
  CallsAreAtomic
CHECK_DEADLOCK FALSE
