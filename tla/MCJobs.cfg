\* Two slots, two names that may be used for several jobs at once, and
\* enough jobs for each slot to be reused.
CONSTANTS
  MAX_JOBS = 2
  Names = {a, b}
  CutName = CutName
  NoName = NoName
  LongNames = {}
  MaxStarted = 4
SPECIFICATION Spec
CHECK_DEADLOCK FALSE
INVARIANTS
  TypeOK
  RunningJobKeepsSlot
  ResultMatchesName
PROPERTY ResultsReachCaller
