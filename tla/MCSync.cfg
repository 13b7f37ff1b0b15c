\* Three threads over all four primitives; weak compare-exchange may fail.
CONSTANTS
  Threads = {t1, t2, t3}
  SpuriousCas = TRUE
  InitialUnits = 1
  MaxPosts = 2
SPECIFICATION Spec
SYMMETRY ThreadSymmetry
INVARIANTS
  TypeOK
  MutualExclusion
  LockedHasHolder
  WakeupOwed
  SpinExclusion
  SemConservation
  SemUnitsClaimed
  EventWakeOwed
