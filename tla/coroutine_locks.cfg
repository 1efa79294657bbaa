SPECIFICATION FairSpec
CONSTANTS
  Coroutines = {c1, c2, c3}
  MaxRounds = 1
INVARIANTS Exclusion OnePlace NoLostWakeup OnlyWritersWait
PROPERTIES WaiterServed
