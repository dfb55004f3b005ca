CONSTANTS
  Arena = {0,1}
  MAX_HEAP = 5
  MAX_LOOP_NESTING = 2
  Sizes = {2}
  MaxSlots = 2
  MaxFrames = 2
  Rules = {"lift", "escape", "one_region", "home"}
SPECIFICATION Spec
CHECK_DEADLOCK FALSE
INVARIANTS
  TypeOK
  LocalsKept
  GlobalsKept
  HeadsNested
