SPECIFICATION Spec
CONSTANTS
  Fn = {"f", "g"}
  Arity <- MCArity
  Num = {0, 1}
  Native = {"for_list"}
  Literals = {1}
  Lists <- MCLists
  MaxSites = 1
  STACK_SIZE = 7
  MaxPushed = 2
  MAX_LOOP_NESTING = 3
  MAX_HEAP = 2
  MaxNatives = 1
  Var = {"x"}
  Errors = {"run"}
  MaxErrors = 1
INVARIANTS
  VariablesSurvive
CHECK_DEADLOCK FALSE
