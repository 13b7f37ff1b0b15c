\* One thread waits, the other sets: the wait returns and the signal stays.
CONSTANTS
  Threads = {t1, t2}
  SpuriousCas = FALSE
  InitialUnits = 0
  MaxPosts = 0
SPECIFICATION Spec
PROPERTY AutoReset
