SPECIFICATION Spec
CONSTANTS
  DEPTH = 2
  Entry <- Store
  Adr <- MCAdr
  SNOOP = FALSE
  DCACHE = FALSE
  Enabled <- Off
  WAYS = 1
  SETS = 1
  LINE = 2
  WiredLru <- Off
  Ops <- Memops
  Alignments <- Aligned
  MaxOps = 3
  MaxErrors = 1
  MaxTraps = 0
  MaxOthers = 0
PROPERTIES ErrorPcIsOfStore
