SPECIFICATION Spec
CONSTANTS
  DEPTH = 1
  Entry <- Store
  Adr <- MCLine
  SNOOP = TRUE
  DCACHE = TRUE
  Enabled <- On
  WAYS = 1
  SETS = 1
  LINE = 2
  WiredLru <- Off
  Ops <- Links
  Alignments <- Aligned
  MaxOps = 3
  MaxErrors = 0
  MaxTraps = 1
  MaxOthers = 1
INVARIANTS LinesCurrent
PROPERTIES SuccessMeansWritten ImplementsMemory SwaIsAtomic
