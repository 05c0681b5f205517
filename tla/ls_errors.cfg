SPECIFICATION FairSpec
CONSTANTS
  DEPTH = 1
  Entry <- Store
  Adr <- MCLine
  SNOOP = FALSE
  DCACHE = TRUE
  Enabled <- OnOff
  WAYS = 1
  SETS = 1
  LINE = 2
  WiredLru <- Off
  Ops <- Memops
  Alignments <- AnyAlignment
  MaxOps = 3
  MaxErrors = 1
  MaxTraps = 1
  MaxOthers = 0
INVARIANTS TypeOK StoreOrder LinesCurrent TakesOwnAnswer
PROPERTIES StoreNotSkipped AcceptsItsStore KeepsContract LsuCompletes ImplementsMemory
