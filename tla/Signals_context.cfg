\* A call whose result is 100, interrupted by a handler.
SPECIFICATION SpecDisciplined
CONSTANTS
  MaxPid = 1
  MaxTid = 1
  MaxPending = 2
  Sent <- UserSignal1
  Masks <- NoMask
  Caught <- UserSignal1
  MaxSig = 31
  Data = 100
PROPERTIES
  ContextRestored
