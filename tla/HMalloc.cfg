SPECIFICATION Spec
CONSTANTS
  WORD = 1
  HEAPBASE = 1
  HEAPMAX = 9
  INTMAX = 9
  Requests = {0, 1, 2, 9}
  Data = {7}
  Foreign = {1}
INVARIANTS TypeOK BlocksApart ListIsChain OwnedOnce SearchIsFirstFit TraverseInOrder ZeroedStaysZero
PROPERTIES ImplementsFirstFit AreasAreTheCallers CallsReturn
CHECK_DEADLOCK FALSE
