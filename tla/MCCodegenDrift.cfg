CONSTANTS
  MAX_LOOP_NESTING = 8
  STACK_SIZE = 9
  MaxStatements = 4
  MaxParameters = 1
  MaxNames = 1
  Avoids = {}
SPECIFICATION Spec
CHECK_DEADLOCK FALSE
INVARIANT ScopesUnwound
