SPECIFICATION LruSpec
CONSTANTS
  NUMWAYS = 4
  MaxAccesses = 6
INVARIANTS LruTypeOK OrderOfUse VictimIsOldest
