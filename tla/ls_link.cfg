SPECIFICATION Spec
CONSTANTS
  DEPTH = 1
  Entry <- Store
  Adr <- MCWord
  SNOOP = FALSE
  DCACHE = FALSE
  Enabled <- Off
  WAYS = 1
  SETS = 1
  LINE = 2
  WiredLru <- Off
  Ops <- Links
  Alignments <- Aligned
  MaxOps = 4
  MaxErrors = 0
  MaxTraps = 0
  MaxOthers = 0
PROPERTIES BrokenLinkDiscards
