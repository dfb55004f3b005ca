CONSTANTS
  MAX_JOBS = 2
  Names = {a, b}
  CutName = CutName
  NoName = NoName
  LongNames = {}
  MaxStarted = 4
SPECIFICATION Spec
CHECK_DEADLOCK FALSE
INVARIANT FreesOwnCommand
