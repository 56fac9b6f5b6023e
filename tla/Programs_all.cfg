\* The test programs, each with its threads, scheduled fairly.
SPECIFICATION ProgramSpec
CONSTANTS
  Threads <- FiveThreads
  None = None
  MutexIds <- FourIds
  SemIds <- FourIds
  CondvarIds <- OneId
  ResCounts <- NoCounts
  MaxCount = 4
  Running <- AllPrograms
  FirstTid = 4
  N = 3
  ROUND = 2
  BUFFER_SIZE = 3
  PRODUCER_COUNT = 3
  NUMBER_PER_PRODUCER = 4
  PER_THREAD = 3
  THREAD_COUNT = 4
INVARIANTS
  BufferIsFifo

  
