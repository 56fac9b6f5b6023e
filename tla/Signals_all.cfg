\* Two processes, two threads, programs that return from handlers properly.
SPECIFICATION SpecDisciplined
CONSTANTS
  MaxPid = 1
  MaxTid = 1
  MaxPending = 2
  Sent <- SomeSignals
  Masks <- SomeMasks
  Caught <- UserSignal1
  MaxSig = 31
  Data = 0
INVARIANTS
  HandlerMatches
  OwnContext
PROPERTIES
  TakenInOrder
