\* Threads that make threads, up to the twelfth.
SPECIFICATION Spec
CONSTANTS
  B = 6
  MaxThreads = 12
INVARIANTS
  ResultsArrive
