SPECIFICATION Spec
CONSTANTS
  WORD = 1
  HEAPBASE = 1
  HEAPMAX = 10
  INTMAX = 4
  Requests = {1, 2}
  Data = {}
  Foreign = {}
INVARIANTS ListIsChain
CHECK_DEADLOCK FALSE
