\* All programs of up to four statements and branches; both stacks are shorter than
\* the deepest of them need.
CONSTANTS
  MAX_LOOP_NESTING = 8
  STACK_SIZE = 7
  MaxStatements = 4
  MaxParameters = 1
  MaxNames = 1
  Avoids = {"drift"}
SPECIFICATION Spec
CHECK_DEADLOCK FALSE
INVARIANTS
  TypeOK
  ScopesUnwound
  LocalsLineUp
