SPECIFICATION PMSpec
CONSTANTS
  Programs <- MCPrograms
  UNMAPPED <- MCUnmapped
  MaxWait = 3
  DEPTH = 2
  Entry <- Store
  Adr <- MCAdr
  SNOOP = FALSE
  DCACHE = TRUE
  Enabled <- On
  WAYS = 2
  SETS = 2
  LINE = 8
  WiredLru <- OnOff
  Ops <- NoOps
  Alignments <- Aligned
  MaxOps = 400
  MaxErrors = 1
  MaxTraps = 0
  MaxOthers = 0
INVARIANTS StopsAsListed LineInOneWay StallIsShort FlagsExact
PROPERTIES ProgramMemory ImplementsFifo
