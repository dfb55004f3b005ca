SPECIFICATION Spec
CONSTANTS
  Fn = {"f", "g"}
  Arity <- MCArity
  Num = {0, 1}
  Native = {"for_list", "param_filter"}
  Literals = {1}
  Lists <- MCLists
  MaxSites = 1
  STACK_SIZE = 7
  MaxPushed = 2
  MAX_LOOP_NESTING = 2
  MAX_HEAP = 1
  MaxNatives = 2
  Var = {"x"}
  Errors = {"compile", "run"}
  MaxErrors = 1
INVARIANTS
  TypeOK
  ScopesMatch
  VariablesKept
PROPERTIES
  CallsNest
CHECK_DEADLOCK FALSE
