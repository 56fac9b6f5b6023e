\* Every call on two mutexes, a semaphore of up to two units and a condition variable.
SPECIFICATION OrderlySpec
CONSTANTS
  Threads = {t1, t2, t3}
  None = None
  MutexIds <- TwoIds
  SemIds <- OneId
  CondvarIds <- OneId
  ResCounts <- ZeroOne
  MaxCount = 2
SYMMETRY Symmetry
INVARIANTS
  TypeOK
  OnePlace
  SemaphoreCounts
  FreeMutexHasNoWaiter
  OwnersTold
PROPERTIES
  WokenWithGrant
  StaleOnlyByKill
  MutexesImplement
  SemaphoresImplement
