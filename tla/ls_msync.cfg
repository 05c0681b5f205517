SPECIFICATION Spec
CONSTANTS
  DEPTH = 1
  Entry <- Store
  Adr <- MCWord
  SNOOP = FALSE
  DCACHE = TRUE
  Enabled <- On
  WAYS = 1
  SETS = 1
  LINE = 1
  WiredLru <- Off
  Ops <- Switching
  Alignments <- Aligned
  MaxOps = 6
  MaxErrors = 0
  MaxTraps = 0
  MaxOthers = 0
PROPERTIES MsyncDrains
