\* "no task" after a kill of a blocked thread.
SPECIFICATION OrderlySpec
CONSTANTS
  Threads = {t1, t2, t3}
  None = None
  MutexIds <- OneId
  SemIds <- NoIds
  CondvarIds <- NoIds
  ResCounts <- NoCounts
  MaxCount = 0
SYMMETRY Symmetry
INVARIANTS
  ShutdownOnlyWhenIdle
