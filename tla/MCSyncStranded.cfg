\* Two threads are enough to strand one; no spurious failures are needed.
CONSTANTS
  Threads = {t1, t2}
  SpuriousCas = FALSE
  InitialUnits = 0
  MaxPosts = 0
SPECIFICATION Spec
SYMMETRY ThreadSymmetry
INVARIANT SleeperHasWaker
