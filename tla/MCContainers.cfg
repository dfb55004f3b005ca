SPECIFICATION Spec
CONSTANTS
  Value <- MCValue
  Literals <- MCLiterals
  BYTE = 2
  PerCell = 2
  Index <- MCIndex
  Joined <- MCJoined
  MAP_INITIAL_CAP = 1
  MAX_HEAP = 13
  MaxItems = 1
  MaxObjects = 2
  MaxLoops = 1
  MaxOps = 5
INVARIANTS
  TypeOK
  ObjectsApart
  ReadsAgree
  VisitsEach
PROPERTIES
  IsCollections
CHECK_DEADLOCK FALSE
VIEW view
