\* The programs of pipetest.rs for messages up to more than twice the ring, and
\* any program of three processes.
SPECIFICATION TestSpec
CONSTANTS
  Procs = {parent, child, other}
  Parent = parent
  Child = child
  RingBufferSize = 3
  MaxLen = 4
  Bytes <- ZeroOne
  Messages <- SomeMessages
  BufferLens <- SomeLengths
INVARIANTS
  MessageArrives
PROPERTIES
  StreamImplemented
  BothFinish
