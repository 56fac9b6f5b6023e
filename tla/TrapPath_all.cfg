\* Two threads, every call of the user library, the firmware's console.
SPECIFICATION Spec
CONSTANTS
  Threads <- TwoThreads
  Makes <- EveryCall
  Cells <- TwoCells
INVARIANTS
  OnlyMapped
  SupervisorUninterrupted
PROPERTIES
  ThreadFindsItself
  ReturnsLikeAFunction
  CallsArrive
  FirmwareKeepsRegisters
  Restored
