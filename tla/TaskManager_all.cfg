\* Everything processes and threads do to each other.
SPECIFICATION Spec
CONSTANTS
  MaxPid = 2
  MaxTid = 3
  ExitCodes <- OneCode
INVARIANTS
  TreeConsistent
  ThreadsConsistent
  ExitToldOnce
PROPERTIES
  SpacesPartOnlyInExec
  FamilyImplemented
