\* Two regions beside the main heap; generations modulo 3, so that two
\* initialisations make a full lap and MaxEpoch = 3 goes past one.
CONSTANTS
  MAX_ARENAS = 3
  GEN_MOD = 3
  MAX_HEAP = 3
  Sizes = {1, 2}
  MaxPtrs = 2
  MaxEpoch = 3
SPECIFICATION Spec
CHECK_DEADLOCK FALSE
INVARIANTS
  TypeOK
  StaleNeverResolves
  LiveObjectsDisjoint
  ResolvedHasMemory
  MainHeapStays
