\* Two bottles, one archive, two packages: four calls, killed anywhere.
CONSTANTS
  Bottles = {b1, b2}
  Packages = {"app", "tool"}
  Payloads = {"exe", "dll", "lnk"}
  Shortcuts = {"lnk"}
  Setups <- TwoPackages
  Absent = Absent
  Empty = Empty
  MaxCalls = 4
SYMMETRY BottleSymmetry
SPECIFICATION Spec
INVARIANTS
  BottlesTypeOK
  TracedToJournal
  RoundTrip
  ArchKept
CHECK_DEADLOCK FALSE
