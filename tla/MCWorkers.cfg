CONSTANTS
  MAX_ARENAS = 3
  GEN_MOD = 8
  MAX_HEAP = 2
  MAX_WORKERS = 2
  Rules = {"hands_off", "region_data", "spawn_one"}
  MaxBlocks = 5
  MaxPtrs = 1
SPECIFICATION Spec
CHECK_DEADLOCK FALSE
INVARIANTS
  TypeOK
  OneHolder
  NoLeak
  RefsFollowTheirObject
  CompleteMeansHandedOver
PROPERTY DockReturns
