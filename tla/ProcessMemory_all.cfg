\* Three processes over four root entries, until the heap of the bound is full.
SPECIFICATION Spec
CONSTANTS
  Procs = {p1, p2, p3}
  Width = 7
  UserRoots = 4
  Roots = 24
  HeapEnd = 93
  PageBytes = 2
  Zero = "zero"
  Foreign = "foreign"
  Layout <- KernelImage
  Mmio <- Device
  Programs <- TwoPrograms
  Values = {"stored"}
  StoredPages <- SomePages
  UnmapRanges <- SomeRanges
SYMMETRY Symmetry
INVARIANTS
  AreasTellTheTruth
  PortalEverywhere
  StacksApart
  PanicNeedsFullRoots
PROPERTIES
  MemoryIsPrivate
