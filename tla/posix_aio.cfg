SPECIFICATION FairSpec
CONSTANTS
  Acbs = {a1, a2}
  Threads = {t1, t2}
  max_threads = 2
  MaxSubmits = 3
  None = None
INVARIANTS WorkOnOwnRequest ThreadsAccounted
PROPERTIES ServesEveryRequest FlushEnds
CHECK_DEADLOCK FALSE
